---- MODULE Spec2Model ----
(***************************************************************************)
(* Model of the "guaranteed JSON response" protocol of the repository:     *)
(*   day_2/gigachat_json_api.py  (API module)                              *)
(*   day_2/chatbot_gui.py        (GUI module, its own copies of the        *)
(*                                validator, the cleaner and the           *)
(*                                coordinator)                             *)
(*                                                                         *)
(* A text is a sequence of characters; a character is a one-symbol string. *)
(* SANY cannot lex a backquote inside a string literal, so the backquote   *)
(* character is written "bt".                                              *)
(***************************************************************************)
EXTENDS Integers, Sequences, FiniteSets, TLC

VARIABLES
    \* ---- clean_json_response applied to a text (SpecClean)
    text,           \* the cleaner's input
    clean_pc,       \* "start" | "once" | "twice"
    cleaned,        \* API cleaner: clean_json_response(text)
    recleaned,      \* API cleaner applied to its own output
    gui_cleaned,    \* GUI cleaner: clean_json_response(text)
    gui_recleaned,  \* GUI cleaner applied to its own output
    \* ---- validate_json_response applied to a decoded value (SpecValidate)
    candidate,      \* the decoded value handed to the validator
    valid_pc,       \* "start" | "done"
    verdict,        \* API validator: "True" | "False" | "TypeError" (raised)
    gui_verdict,    \* GUI validator: the same
    \* ---- one send_json_request call (Spec)
    impl,           \* "api" (gigachat_json_api.py) | "gui" (chatbot_gui.py)
    user_message,   \* argument
    max_retries,    \* argument
    pc,             \* position of the call: "start", ..., "done"
    client,         \* "None" | "open" | "closed" (after __exit__)
    exits,          \* number of client.__exit__ calls made by the call
    chat,           \* the conversation the next provider call sends
    attempt,        \* the loop variable
    response_text,  \* the last raw provider text, or None
    calls,          \* number of client.chat invocations so far
    sent,           \* history: the conversation of each provider call
    received,       \* history: what each provider call returned or raised
    outcome,        \* how the call ended: a returned value or a raised exception
    \* ---- a second send_json_request call, running on another thread
    parked,         \* the local variables of the call that is not running now
    \* ---- the desktop chat window of day_1 and of day_2 (SpecGui)
    app,            \* "day_1" | "day_2": whose ChatBotGUI this is
    window,         \* "open" | "destroyed" (after on_closing)
    giga_client,    \* self.giga_client: "None" | "open" | "closed"
    entry_text,     \* the content of message_entry
    entry_state,    \* state of message_entry: "normal" | "disabled"
    button_state,   \* state of send_button: "normal" | "disabled"
    workers,        \* worker threads started and not yet ended
    callbacks,      \* the display callbacks scheduled with root.after
    shown,          \* the last entry added to chat_display
    last_json_response, \* self.last_json_response (day_2)
    ignored,        \* send_message calls that returned early during a request
    \* ---- the desktop chat window of day 5 (SpecDay5), with the window
    \* variables above
    conversation_history, \* self.conversation_history
    current_prompt,       \* self.current_prompt
    current_preset_key,   \* self.current_preset_key
    current_prompt_name,  \* self.current_prompt_name
    current_model,        \* self.current_model
    temperature,          \* self.temperature, in hundredths
    settings,             \* the settings window: is it open
    threads,              \* the worker threads alive, each with its position
    \* ---- the web chat of day 6 (SpecDay6)
    session,        \* the browser's session cookie: session["chat_state"]
    prompts_file,   \* config/preset_prompts.json, an ordered mapping
    names_file,     \* config/preset_prompt_names.json, an ordered mapping
    flashed,        \* the message the last request flashed
    asked,          \* the provider call of the last request, if it made one
    posts           \* number of POST requests handled so far

cleanVars == <<text, clean_pc, cleaned, recleaned, gui_cleaned, gui_recleaned>>
validVars == <<candidate, valid_pc, verdict, gui_verdict>>
coordVars == <<impl, user_message, max_retries, pc, client, exits, chat, attempt,
               response_text, calls, sent, received, outcome>>
pairVars == <<parked>>
guiVars == <<app, window, giga_client, entry_text, entry_state, button_state,
             workers, callbacks, shown, last_json_response, ignored>>
day5Vars == <<conversation_history, current_prompt, current_preset_key,
              current_prompt_name, current_model, temperature, settings,
              threads>>
day6Vars == <<session, prompts_file, names_file, flashed, asked, posts>>
laterVars == <<day5Vars, day6Vars>>
\* the variables around a single call
appVars == <<pairVars, guiVars, laterVars>>
vars == <<cleanVars, validVars, coordVars, appVars>>

(***************************************************************************)
(* Bounds of the model.                                                    *)
(***************************************************************************)
\* the cleaner's inputs are concatenations of at most MaxPieces pieces
MaxPieces == 4
\* the key_points lists handed to the validator hold at most MaxKeyPoints entries
MaxKeyPoints == 3
\* send_json_request is called with max_retries in 0..MaxRetries
MaxRetries == 3
\* send_message calls that return early during one request are counted up to
\* MaxIgnored
MaxIgnored == 1

(***************************************************************************)
(* Python str operations, on sequences of characters.                      *)
(***************************************************************************)
Backtick == "bt"
Fence == <<Backtick, Backtick, Backtick>>
FenceJson == Fence \o <<"j", "s", "o", "n">>

SetMin(S) == CHOOSE m \in S : \A n \in S : m <= n
SetMax(S) == CHOOSE m \in S : \A n \in S : n <= m

\* str.strip() with no argument removes leading and trailing whitespace
IsSpace(c) == c \in {" ", "\n", "\t", "\r"}
strip(t) ==
    LET keep == {i \in 1..Len(t) : ~IsSpace(t[i])}
    IN  IF keep = {} THEN <<>> ELSE SubSeq(t, SetMin(keep), SetMax(keep))

startswith(t, p) == Len(t) >= Len(p) /\ SubSeq(t, 1, Len(p)) = p
endswith(t, p) == Len(t) >= Len(p) /\ SubSeq(t, Len(t) - Len(p) + 1, Len(t)) = p

\* str.find(c) / str.rfind(c): 0-based index of the first / last c, or -1
find(t, c) ==
    LET hits == {i \in 1..Len(t) : t[i] = c}
    IN  IF hits = {} THEN -1 ELSE SetMin(hits) - 1
rfind(t, c) ==
    LET hits == {i \in 1..Len(t) : t[i] = c}
    IN  IF hits = {} THEN -1 ELSE SetMax(hits) - 1

\* t[a:b] for 0 <= a, 0 <= b (0-based, b exclusive, clamped to the length)
Slice(t, a, b) ==
    LET hi == IF b > Len(t) THEN Len(t) ELSE b
    IN  IF a >= hi THEN <<>> ELSE SubSeq(t, a + 1, hi)
\* t[a:]
DropFirst(t, a) == Slice(t, a, Len(t))
\* t[:-n] for n > 0
DropLast(t, n) == IF n >= Len(t) THEN <<>> ELSE SubSeq(t, 1, Len(t) - n)

(***************************************************************************)
(* clean_json_response: the API module's copy and the GUI module's copy.   *)
(***************************************************************************)
\* the variant that strips the fences and never slices to the braces
clean_json_response_unsliced(t0) ==
    LET t1 == strip(t0)
        t2 == IF startswith(t1, FenceJson) THEN DropFirst(t1, 7)
              ELSE IF startswith(t1, Fence) THEN DropFirst(t1, 3)
              ELSE t1
        t3 == IF endswith(t2, Fence) THEN DropLast(t2, 3) ELSE t2
    IN  strip(t3)

\* the variant that slices to the first closing brace after the opening one
clean_json_response_first_close(t0) ==
    LET t1 == strip(t0)
        t2 == IF startswith(t1, FenceJson) THEN DropFirst(t1, 7)
              ELSE IF startswith(t1, Fence) THEN DropFirst(t1, 3)
              ELSE t1
        t3 == IF endswith(t2, Fence) THEN DropLast(t2, 3) ELSE t2
        t4 == strip(t3)
        start_idx == find(t4, "{")
        closes == {i \in 1..Len(t4) : t4[i] = "}" /\ i - 1 > start_idx}
    IN  IF start_idx # -1 /\ closes # {}
        THEN Slice(t4, start_idx, SetMin(closes))
        ELSE t4

\* str.replace(p, ""): every occurrence of p is taken out, left to right
RECURSIVE Erased(_, _)
Erased(t, p) ==
    IF t = <<>> THEN <<>>
    ELSE IF startswith(t, p) THEN Erased(DropFirst(t, Len(p)), p)
    ELSE <<Head(t)>> \o Erased(Tail(t), p)

\* the variant that takes the fences out wherever they stand in the text
clean_json_response_fences_erased(t0) == strip(Erased(strip(t0), Fence))

clean_json_response(t0) ==
    LET t1 == strip(t0)
        t2 == IF startswith(t1, FenceJson) THEN DropFirst(t1, 7)
              ELSE IF startswith(t1, Fence) THEN DropFirst(t1, 3)
              ELSE t1
        t3 == IF endswith(t2, Fence) THEN DropLast(t2, 3) ELSE t2
        t4 == strip(t3)
        start_idx == find(t4, "{")
        end_idx == rfind(t4, "}")
    IN  IF start_idx # -1 /\ end_idx # -1 /\ end_idx > start_idx
        THEN Slice(t4, start_idx, end_idx + 1)
        ELSE t4

gui_clean_json_response(t0) ==
    LET t1 == strip(t0)
        t2 == IF startswith(t1, FenceJson) THEN DropFirst(t1, 7)
              ELSE IF startswith(t1, Fence) THEN DropFirst(t1, 3)
              ELSE t1
        t3 == IF endswith(t2, Fence) THEN DropLast(t2, 3) ELSE t2
        t4 == strip(t3)
        start_idx == find(t4, "{")
        end_idx == rfind(t4, "}")
    IN  IF start_idx # -1 /\ end_idx # -1 /\ end_idx > start_idx
        THEN Slice(t4, start_idx, end_idx + 1)
        ELSE t4

(***************************************************************************)
(* Decoded JSON values, as json.loads produces them.                       *)
(*   null -> None, true/false -> bool, number -> int, string -> str,       *)
(*   array -> list, object -> dict (here: the sequence of its items)       *)
(***************************************************************************)
JNull == [t |-> "null"]
JBool(b) == [t |-> "bool", b |-> b]
JNum(n) == [t |-> "num", n |-> n]
JStr(s) == [t |-> "str", s |-> s]
JList(xs) == [t |-> "list", xs |-> xs]
JDict(items) == [t |-> "dict", items |-> items]
Item(k, v) == [k |-> k, v |-> v]

K_answer == <<"a", "n", "s", "w", "e", "r">>
K_key_points == <<"k", "e", "y", "_", "p", "o", "i", "n", "t", "s">>
K_sentiment == <<"s", "e", "n", "t", "i", "m", "e", "n", "t">>
S_neutral == <<"n", "e", "u", "t", "r", "a", "l">>
S_positive == <<"p", "o", "s", "i", "t", "i", "v", "e">>
S_negative == <<"n", "e", "g", "a", "t", "i", "v", "e">>

\* Python's isinstance(v, str) and isinstance(v, list) on a decoded value
isinstance_str(v) == v.t = "str"
isinstance_list(v) == v.t = "list"

\* sub in s, for two str
IsSubstring(sub, s) ==
    \E i \in 0..(Len(s) - Len(sub)) : SubSeq(s, i + 1, i + Len(sub)) = sub

\* `field in v` for a str field: key membership of a dict, element equality
\* of a list, substring of a str; None, bool and numbers are not iterable
PyIn(field, v) ==
    CASE v.t = "dict" -> IF \E i \in 1..Len(v.items) : v.items[i].k = field
                         THEN "True" ELSE "False"
      [] v.t = "list" -> IF \E i \in 1..Len(v.xs) : v.xs[i] = JStr(field)
                         THEN "True" ELSE "False"
      [] v.t = "str" -> IF IsSubstring(field, v.s) THEN "True" ELSE "False"
      [] OTHER -> "TypeError"

\* v[key] of a dict that holds key (a repeated key keeps its last value)
DictGet(v, key) ==
    LET at == {i \in 1..Len(v.items) : v.items[i].k = key}
    IN  v.items[SetMax(at)].v

\* all(field in v for field in fields): left to right, stops at the first
\* False, and a TypeError of `in` propagates
RECURSIVE AllIn(_, _)
AllIn(fields, v) ==
    IF fields = <<>> THEN "True"
    ELSE LET first == PyIn(Head(fields), v)
         IN  IF first = "True" THEN AllIn(Tail(fields), v) ELSE first

(***************************************************************************)
(* validate_json_response: "True", "False", or "TypeError" when the call   *)
(* raises.  The API module's copy and the GUI module's copy.               *)
(***************************************************************************)
required_fields == <<K_answer, K_key_points, K_sentiment>>
valid_sentiments == {S_neutral, S_positive, S_negative}

\* the variant that also enforces the prompt's "at least 3 key points" rule
validate_json_response_min3(response_data) ==
    LET present == AllIn(required_fields, response_data)
    IN  IF present # "True" THEN present
        ELSE IF response_data.t # "dict" THEN "TypeError"
        ELSE IF ~isinstance_str(DictGet(response_data, K_answer)) THEN "False"
        ELSE IF ~isinstance_list(DictGet(response_data, K_key_points)) THEN "False"
        ELSE IF Len(DictGet(response_data, K_key_points).xs) < 3 THEN "False"
        ELSE IF \E i \in 1..Len(DictGet(response_data, K_key_points).xs) :
                   ~isinstance_str(DictGet(response_data, K_key_points).xs[i])
             THEN "False"
        ELSE IF DictGet(response_data, K_sentiment) \notin
                   {JStr(x) : x \in valid_sentiments}
             THEN "False"
        ELSE "True"

validate_json_response(response_data) ==
    LET present == AllIn(required_fields, response_data)
    IN  IF present # "True" THEN present
        \* response_data["answer"] of a list or a str raises TypeError
        ELSE IF response_data.t # "dict" THEN "TypeError"
        ELSE IF ~isinstance_str(DictGet(response_data, K_answer)) THEN "False"
        ELSE IF ~isinstance_list(DictGet(response_data, K_key_points)) THEN "False"
        ELSE IF \E i \in 1..Len(DictGet(response_data, K_key_points).xs) :
                   ~isinstance_str(DictGet(response_data, K_key_points).xs[i])
             THEN "False"
        ELSE IF DictGet(response_data, K_sentiment) \notin
                   {JStr(x) : x \in valid_sentiments}
             THEN "False"
        ELSE "True"

gui_validate_json_response(response_data) ==
    LET present == AllIn(required_fields, response_data)
    IN  IF present # "True" THEN present
        ELSE IF response_data.t # "dict" THEN "TypeError"
        ELSE IF ~isinstance_str(DictGet(response_data, K_answer)) THEN "False"
        ELSE IF ~isinstance_list(DictGet(response_data, K_key_points)) THEN "False"
        ELSE IF \E i \in 1..Len(DictGet(response_data, K_key_points).xs) :
                   ~isinstance_str(DictGet(response_data, K_key_points).xs[i])
             THEN "False"
        ELSE IF DictGet(response_data, K_sentiment) \notin
                   {JStr(x) : x \in valid_sentiments}
             THEN "False"
        ELSE "True"

(***************************************************************************)
(* json.dumps without whitespace, and json.loads as its inverse on the     *)
(* documents the provider sends.                                           *)
(***************************************************************************)
Digits == <<"0", "1", "2", "3", "4", "5", "6", "7", "8", "9">>

RECURSIVE Encode(_)
RECURSIVE EncodeList(_)
RECURSIVE EncodeItems(_)
Encode(v) ==
    CASE v.t = "null" -> <<"n", "u", "l", "l">>
      [] v.t = "bool" -> IF v.b THEN <<"t", "r", "u", "e">>
                         ELSE <<"f", "a", "l", "s", "e">>
      [] v.t = "num" -> <<Digits[v.n + 1]>>
      [] v.t = "str" -> <<"\"">> \o v.s \o <<"\"">>
      [] v.t = "list" -> <<"[">> \o EncodeList(v.xs) \o <<"]">>
      [] v.t = "dict" -> <<"{">> \o EncodeItems(v.items) \o <<"}">>
EncodeList(xs) ==
    IF xs = <<>> THEN <<>>
    ELSE Encode(Head(xs))
         \o (IF Tail(xs) = <<>> THEN <<>> ELSE <<",">> \o EncodeList(Tail(xs)))
EncodeItems(items) ==
    IF items = <<>> THEN <<>>
    ELSE <<"\"">> \o Head(items).k \o <<"\"", ":">> \o Encode(Head(items).v)
         \o (IF Tail(items) = <<>> THEN <<>>
             ELSE <<",">> \o EncodeItems(Tail(items)))

\* scenario 1: a valid object with three key points
ValidDoc ==
    JDict(<<Item(K_answer, JStr(<<"x">>)),
            Item(K_key_points, JList(<<JStr(<<"a">>), JStr(<<"b">>), JStr(<<"c">>)>>)),
            Item(K_sentiment, JStr(S_neutral))>>)
\* scenario 2: no key point
EmptyPointsDoc ==
    JDict(<<Item(K_answer, JStr(<<"x">>)),
            Item(K_key_points, JList(<<>>)),
            Item(K_sentiment, JStr(S_neutral))>>)
\* scenario 3: one key point
OnePointDoc ==
    JDict(<<Item(K_answer, JStr(<<"x">>)),
            Item(K_key_points, JList(<<JStr(<<"a">>)>>)),
            Item(K_sentiment, JStr(S_positive))>>)
\* scenario 5: a sentiment outside the closed set
BadSentimentDoc ==
    JDict(<<Item(K_answer, JStr(<<"x">>)),
            Item(K_key_points, JList(<<JStr(<<"a">>)>>)),
            Item(K_sentiment, JStr(<<"m", "a", "y", "b", "e">>))>>)
\* an array that holds the three field names
FieldNamesDoc == JList(<<JStr(K_answer), JStr(K_key_points), JStr(K_sentiment)>>)

\* an object whose answer is the empty string
EmptyAnswerDoc ==
    JDict(<<Item(K_answer, JStr(<<>>)),
            Item(K_key_points, JList(<<JStr(<<"a">>), JStr(<<"b">>), JStr(<<"c">>)>>)),
            Item(K_sentiment, JStr(S_neutral))>>)
\* an object with a fourth key
ExtraKeyDoc ==
    JDict(<<Item(K_answer, JStr(<<"x">>)),
            Item(K_key_points, JList(<<JStr(<<"a">>), JStr(<<"b">>), JStr(<<"c">>)>>)),
            Item(K_sentiment, JStr(S_neutral)),
            Item(<<"n", "o", "t", "e">>, JNum(5))>>)

\* the JSON documents that occur in provider responses: objects, and every
\* other kind of value JSON has
JsonDocs == {ValidDoc, EmptyPointsDoc, OnePointDoc, BadSentimentDoc,
             EmptyAnswerDoc, ExtraKeyDoc,
             FieldNamesDoc, JNum(5), JNull, JBool(TRUE), JStr(<<"x">>),
             JList(<<>>)}

\* json.loads(t): the decoded value, or JSONDecodeError (ok = FALSE)
json_loads(t) ==
    IF \E v \in JsonDocs : Encode(v) = t
    THEN [ok |-> TRUE, value |-> CHOOSE v \in JsonDocs : Encode(v) = t]
    ELSE [ok |-> FALSE, value |-> JNull]

(***************************************************************************)
(* Exceptions and outcomes.                                                *)
(***************************************************************************)
\* response_text[:200]
TruncLimit == 200
None == <<"None">>
\* the GUI's placeholder when no response text is held
NoResponseText == <<"no response">>

NoExc == [type |-> "none", msg |-> "none", n |-> 0, raw |-> <<>>,
          has_raw |-> FALSE, cause |-> "none"]
Exc(type, msg) == [NoExc EXCEPT !.type = type, !.msg = msg]

\* json.JSONDecodeError is a subclass of ValueError
IsValueError(e) == e.type \in {"ValueError", "JSONDecodeError"}
IsJSONDecodeError(e) == e.type = "JSONDecodeError"

JsonDecodeError == Exc("JSONDecodeError", "json_decode_error")
\* ValueError("Структура JSON не соответствует требованиям")
StructureError == Exc("ValueError", "structure_mismatch")
\* the TypeError of `in` or of indexing inside validate_json_response
ValidatorTypeError == Exc("TypeError", "validator_type_error")

\* what client.chat can raise: the provider library is not part of the
\* repository, so any kind is possible, also a ValueError (whose text may or
\* may not hold "Структура JSON") and a JSON decode error of its own
ProviderExceptions ==
    {Exc("ConnectionError", "provider_unreachable"),
     Exc("ValueError", "provider_value_error"),
     Exc("ValueError", "provider_structure_mismatch"),
     Exc("JSONDecodeError", "provider_json_decode_error")}

\* the variant in which no error text holds "Структура JSON"
MentionsStructure_never(e) == e.msg \in {}

\* "Структура JSON" in str(e)
MentionsStructure(e) ==
    e.msg \in {"structure_mismatch", "provider_structure_mismatch"}

NoOutcome == [kind |-> "none", value |-> JNull, exc |-> NoExc]
Returned(v) == [kind |-> "return", value |-> v, exc |-> NoExc]
Raised(e) == [kind |-> "raise", value |-> JNull, exc |-> e]

(***************************************************************************)
(* SpecClean: the cleaner applied to a text, then to its own output.       *)
(***************************************************************************)
\* the pieces raw provider texts are made of: fences with and without a
\* language tag, whitespace, braces and prose
Pieces == {Fence, FenceJson, <<" ">>, <<"\n">>, <<"{">>, <<"}">>, <<"a">>}

RECURSIVE Concat(_)
Concat(ps) == IF ps = <<>> THEN <<>> ELSE Head(ps) \o Concat(Tail(ps))

CleanInputs ==
    {Concat(ps) : ps \in UNION {[1..n -> Pieces] : n \in 0..MaxPieces}}

\* what a provider puts around a JSON object: prose, whitespace, an opening
\* fence with or without the language tag, a closing fence
Prefixes ==
    {<<>>, <<" ">>, <<"\n">>, <<"S", "u", "r", "e", "!", " ">>,
     Fence, FenceJson, Fence \o <<"\n">>, FenceJson \o <<"\n">>,
     <<" ">> \o FenceJson \o <<"\n">>, <<"j", "s", "o", "n">>,
     Fence \o <<"j", "s">>, <<"a">> \o Fence, Fence \o Fence}
Suffixes ==
    {<<>>, <<" ">>, <<"\n">> \o Fence, Fence, Fence \o <<"\n">>,
     <<" ", "o", "k">>, Fence \o <<"a">>, Fence \o Fence}
\* texts from an opening brace to a closing brace, balanced or not
Objects ==
    {<<"{", "}">>, <<"{", "a", "}">>, <<"{", "{", "}", "}">>,
     <<"{", "}", "a", "{", "}">>, <<"{", "}", "}">>, <<"{", "{", "}">>,
     <<"{", " ", Backtick, Backtick, Backtick, "}">>,
     <<"{", Backtick, Backtick, Backtick, "j", "s", "o", "n", "}">>}
WrappedInputs ==
    {p \o j \o s : p \in Prefixes, j \in Objects, s \in Suffixes}

\* the variables of a specification that does not run the cleaner
IdleClean ==
    /\ text = <<>>
    /\ clean_pc = "idle"
    /\ cleaned = <<>>
    /\ recleaned = <<>>
    /\ gui_cleaned = <<>>
    /\ gui_recleaned = <<>>

\* the variables of a specification that does not run the validator alone
IdleValid ==
    /\ candidate = JNull
    /\ valid_pc = "idle"
    /\ verdict = "none"
    /\ gui_verdict = "none"

\* the variables of a specification that makes no send_json_request call
IdleCoord ==
    /\ impl = "none"
    /\ user_message = "none"
    /\ max_retries = 0
    /\ pc = "idle"
    /\ client = "None"
    /\ exits = 0
    /\ chat = <<>>
    /\ attempt = 0
    /\ response_text = <<>>
    /\ calls = 0
    /\ sent = <<>>
    /\ received = <<>>
    /\ outcome = NoOutcome

\* the local variables of a send_json_request call: its frame
Frame ==
    [impl |-> impl, user_message |-> user_message, max_retries |-> max_retries,
     pc |-> pc, client |-> client, exits |-> exits, chat |-> chat,
     attempt |-> attempt, response_text |-> response_text, calls |-> calls,
     sent |-> sent, received |-> received, outcome |-> outcome]

\* the frame of no call
NoFrame ==
    [impl |-> "none", user_message |-> "none", max_retries |-> 0,
     pc |-> "idle", client |-> "None", exits |-> 0, chat |-> <<>>,
     attempt |-> 0, response_text |-> <<>>, calls |-> 0,
     sent |-> <<>>, received |-> <<>>, outcome |-> NoOutcome]

\* the variables of a specification that runs no second call
IdlePair == parked = NoFrame

\* the variables of a specification without the desktop chat window
IdleGui ==
    /\ app = "none"
    /\ window = "none"
    /\ giga_client = "None"
    /\ entry_text = ""
    /\ entry_state = "normal"
    /\ button_state = "normal"
    /\ workers = 0
    /\ callbacks = <<>>
    /\ shown = [kind |-> "none"]
    /\ last_json_response = None
    /\ ignored = 0

\* the variables of a specification without the day 5 window
IdleDay5 ==
    /\ conversation_history = <<>>
    /\ current_prompt = "none"
    /\ current_preset_key = "none"
    /\ current_prompt_name = "none"
    /\ current_model = "none"
    /\ temperature = 0
    /\ settings = [open |-> FALSE]
    /\ threads = <<>>

\* the variables of a specification without the day 6 web chat
IdleDay6 ==
    /\ session = [set |-> FALSE]
    /\ prompts_file = <<>>
    /\ names_file = <<>>
    /\ flashed = "none"
    /\ asked = [called |-> FALSE]
    /\ posts = 0

IdleLater == IdleDay5 /\ IdleDay6

\* the variables of a specification that runs neither a second call nor an
\* application around the call
IdleApps == IdlePair /\ IdleGui /\ IdleLater

InitClean ==
    /\ text \in CleanInputs \cup WrappedInputs
    /\ clean_pc = "start"
    /\ cleaned = <<>>
    /\ recleaned = <<>>
    /\ gui_cleaned = <<>>
    /\ gui_recleaned = <<>>
    /\ IdleValid
    /\ IdleCoord
    /\ IdleApps

CleanOnce ==
    /\ clean_pc = "start"
    /\ cleaned' = clean_json_response(text)
    /\ gui_cleaned' = gui_clean_json_response(text)
    /\ clean_pc' = "once"
    /\ UNCHANGED <<text, recleaned, gui_recleaned>>
    /\ UNCHANGED <<validVars, coordVars, appVars>>

CleanTwice ==
    /\ clean_pc = "once"
    /\ recleaned' = clean_json_response(cleaned)
    /\ gui_recleaned' = gui_clean_json_response(gui_cleaned)
    /\ clean_pc' = "twice"
    /\ UNCHANGED <<text, cleaned, gui_cleaned>>
    /\ UNCHANGED <<validVars, coordVars, appVars>>

NextClean == CleanOnce \/ CleanTwice

SpecClean == InitClean /\ [][NextClean]_vars

\* C6: clean_json_response is idempotent: cleaning the cleaner's output
\* returns it unchanged, for every input text, in both copies.
C6_CleanerIdempotent ==
    clean_pc = "twice" => (recleaned = cleaned /\ gui_recleaned = gui_cleaned)

(***************************************************************************)
(* SpecValidate: the validator applied to a decoded value.                 *)
(***************************************************************************)
Absent == [t |-> "absent"]
StrA == JStr(<<"a">>)

\* lists of text of every length up to the bound, and lists with one
\* element that is not text
KeyPointLists ==
    {JList([i \in 1..n |-> StrA]) : n \in 0..MaxKeyPoints}
    \cup {JList([i \in 1..n |-> IF i = bad THEN JNum(5) ELSE StrA]) :
             n \in 1..MaxKeyPoints, bad \in 1..MaxKeyPoints}
    \* (bad > n leaves the list all text)

FieldValues ==
    KeyPointLists
    \cup {JStr(<<"x">>), JStr(<<>>), JStr(S_neutral), JStr(S_positive),
          JStr(S_negative), JStr(<<"m", "a", "y", "b", "e">>),
          JNum(5), JNull, JBool(TRUE), JDict(<<>>)}

IsPresent(it) == it.v.t # "absent"

\* every object over the three schema keys and one more key, each key absent
\* or bound to one of FieldValues
Mappings ==
    {JDict(SelectSeq(<<Item(K_answer, a), Item(K_key_points, k),
                       Item(K_sentiment, s), Item(<<"x">>, e)>>, IsPresent)) :
        a \in FieldValues \cup {Absent},
        k \in FieldValues \cup {Absent},
        s \in FieldValues \cup {Absent},
        e \in {JNum(5), Absent}}

\* what JSON decoding produces besides objects
NonMappings ==
    {JNull, JBool(TRUE), JBool(FALSE), JNum(5), JStr(<<"x">>),
     JStr(K_answer \o <<" ">> \o K_key_points \o <<" ">> \o K_sentiment),
     JList(<<>>), JList(<<JNum(5)>>),
     JList(<<JStr(K_answer), JStr(K_key_points), JStr(K_sentiment)>>)}

InitValidate ==
    /\ candidate \in Mappings \cup NonMappings
    /\ valid_pc = "start"
    /\ verdict = "none"
    /\ gui_verdict = "none"
    /\ IdleClean
    /\ IdleCoord
    /\ IdleApps

Validate ==
    /\ valid_pc = "start"
    /\ verdict' = validate_json_response(candidate)
    /\ gui_verdict' = gui_validate_json_response(candidate)
    /\ valid_pc' = "done"
    /\ UNCHANGED candidate
    /\ UNCHANGED <<cleanVars, coordVars, appVars>>

NextValidate == Validate

SpecValidate == InitValidate /\ [][NextValidate]_vars

\* C5: validate_json_response is total: for every decoded value it returns
\* a boolean and never raises.
C5_ValidatorTotal ==
    valid_pc = "done" =>
        (verdict \in {"True", "False"} /\ gui_verdict \in {"True", "False"})

\* the schema, as the data model states it: the three keys are present,
\* answer is text, key_points is a list of text, sentiment is in the closed set
C7_HasField(c, key, ok(_)) ==
    \E i \in 1..Len(c.items) : c.items[i].k = key /\ ok(c.items[i].v)
C7_IsText(v) == v.t = "str"
C7_IsTextList(v) == v.t = "list" /\ \A i \in 1..Len(v.xs) : v.xs[i].t = "str"
C7_IsSentiment(v) ==
    v.t = "str" /\ (v.s = S_neutral \/ v.s = S_positive \/ v.s = S_negative)
C7_Schema(c) ==
    /\ C7_HasField(c, K_answer, C7_IsText)
    /\ C7_HasField(c, K_key_points, C7_IsTextList)
    /\ C7_HasField(c, K_sentiment, C7_IsSentiment)

\* C7: on every mapping the validator returns true exactly when the schema
\* holds (whatever the number of key points), and the API copy and the GUI
\* copy agree.
C7_ValidatorIffSchema ==
    valid_pc = "done" =>
        /\ candidate.t = "dict" =>
               verdict = (IF C7_Schema(candidate) THEN "True" ELSE "False")
        /\ gui_verdict = verdict

\* C7 witness: an object with no key point at all has been accepted
C7_Witness ==
    /\ valid_pc = "done"
    /\ candidate.t = "dict"
    /\ verdict = "True"
    /\ \E i \in 1..Len(candidate.items) :
          candidate.items[i].k = K_key_points /\ candidate.items[i].v.xs = <<>>

(***************************************************************************)
(* send_json_request: the conversation, the provider and one attempt.      *)
(***************************************************************************)
\* the base instruction; an instruction is the sequence of its parts
SYSTEM_PROMPT == <<"SYSTEM_PROMPT">>
\* "ВАЖНО: ... Отвечай ТОЛЬКО JSON, без дополнительного текста!"
DecodeDirective == "RESPOND_WITH_ONLY_JSON"
\* "ОШИБКА: ... Обязательно используй поля: answer, key_points, sentiment"
StructureDirective == "USE_THE_FIELDS"

Messages(role, content) == [role |-> role, content |-> content]
BaseChat(um) ==
    <<Messages("system", SYSTEM_PROMPT), Messages("user", um)>>
\* the variant whose base instruction is process-wide: it takes the
\* instruction the other call sent last
RetryChat_shared_instruction(directive, um) ==
    <<Messages("system",
               (IF parked.chat = <<>> THEN SYSTEM_PROMPT
                ELSE parked.chat[1].content) \o <<directive>>),
      Messages("user", um)>>

\* the variant that appends the directive to the instruction sent before
RetryChat_accumulating(directive, um) ==
    <<Messages("system", chat[1].content \o <<directive>>), Messages("user", um)>>

\* the variant that keeps the failed response in the conversation
RetryChat_with_history(directive, um) ==
    <<Messages("system", SYSTEM_PROMPT \o <<directive>>), Messages("user", um),
      Messages("assistant", response_text)>>

\* the variant that sends the directive of the other failure kind
RetryChat_swapped(directive, um) ==
    <<Messages("system",
               SYSTEM_PROMPT \o <<IF directive = "RESPOND_WITH_ONLY_JSON"
                                  THEN "USE_THE_FIELDS"
                                  ELSE "RESPOND_WITH_ONLY_JSON">>),
      Messages("user", um)>>

\* retry_prompt = f"{SYSTEM_PROMPT}\n\n<directive>"
RetryChat(directive, um) ==
    <<Messages("system", SYSTEM_PROMPT \o <<directive>>), Messages("user", um)>>

\* raw provider texts
R_valid == Encode(ValidDoc)
R_fenced == FenceJson \o <<"\n">> \o Encode(EmptyPointsDoc) \o <<"\n">> \o Fence
R_wrapped ==
    <<"S", "u", "r", "e", "!", " ">> \o Encode(OnePointDoc) \o <<" ", "o", "k">>
R_prose == <<"h", "i">>
R_empty == <<>>
R_long_prose == [i \in 1..(TruncLimit + 5) |-> "z"]
R_bad_sentiment == Encode(BadSentimentDoc)
R_number == Encode(JNum(5))
R_field_names == Encode(FieldNamesDoc)
R_empty_answer == Encode(EmptyAnswerDoc)
R_extra_key == Encode(ExtraKeyDoc)
R_null == Encode(JNull)
R_true == Encode(JBool(TRUE))
R_string == Encode(JStr(<<"x">>))
R_empty_array == Encode(JList(<<>>))

ProviderTexts == {R_valid, R_fenced, R_wrapped, R_prose, R_empty, R_long_prose,
                  R_bad_sentiment, R_number, R_field_names,
                  R_empty_answer, R_extra_key,
                  R_null, R_true, R_string, R_empty_array}

TextResult(r) == [kind |-> "text", text |-> r, exc |-> NoExc]
RaiseResult(e) == [kind |-> "raise", text |-> <<>>, exc |-> e]
\* one provider answer of each kind: a valid object, a decode failure, a
\* structural failure, a value the validator raises on, a provider failure
PairResults ==
    {TextResult(R_valid), TextResult(R_prose), TextResult(R_bad_sentiment),
     TextResult(R_number),
     RaiseResult(Exc("ConnectionError", "provider_unreachable"))}

\* client.chat(chat) returns a text or raises; where two calls run, or the
\* call runs inside an application, it is answered from PairResults
\* what the provider can do to a request of a chat window: the results of
\* PairResults, or an exception of no class the code names
WindowResults ==
    PairResults \cup {RaiseResult(Exc("RuntimeError", "provider_failed"))}

ProviderResults ==
    IF app # "none" THEN WindowResults
    ELSE IF parked # NoFrame THEN PairResults
    ELSE {TextResult(r) : r \in ProviderTexts}
         \cup {RaiseResult(e) : e \in ProviderExceptions}

\* the variant of the try body that returns whatever decodes
ParseAttempt_unvalidated(rt) ==
    LET cleaned_text == clean_json_response(rt)
        json_data == json_loads(cleaned_text)
    IN  IF ~json_data.ok THEN Raised(JsonDecodeError)
        ELSE Returned(json_data.value)

\* the body of the try block after the response text is held: clean, decode,
\* validate; it returns json_data or raises
ParseAttempt(rt) ==
    LET cleaned_text == clean_json_response(rt)
        json_data == json_loads(cleaned_text)
    IN  IF ~json_data.ok THEN Raised(JsonDecodeError)
        ELSE LET v == validate_json_response(json_data.value)
             IN  IF v = "TypeError" THEN Raised(ValidatorTypeError)
                 ELSE IF v = "True" THEN Returned(json_data.value)
                 ELSE Raised(StructureError)

gui_ParseAttempt(rt) ==
    LET cleaned_text == gui_clean_json_response(rt)
        json_data == json_loads(cleaned_text)
    IN  IF ~json_data.ok THEN Raised(JsonDecodeError)
        ELSE LET v == gui_validate_json_response(json_data.value)
             IN  IF v = "TypeError" THEN Raised(ValidatorTypeError)
                 ELSE IF v = "True" THEN Returned(json_data.value)
                 ELSE Raised(StructureError)

\* the variant that reports the failure of the first attempt
ParseExhausted_of_first(n, rt, e) ==
    IF json_loads(clean_json_response(received[1].text)).ok
    THEN [type |-> "ValueError", msg |-> "validation_exhausted", n |-> n,
          raw |-> <<>>, has_raw |-> FALSE, cause |-> "structure_mismatch"]
    ELSE [type |-> "ValueError", msg |-> "parse_exhausted", n |-> n,
          raw |-> Slice(received[1].text, 0, TruncLimit), has_raw |-> TRUE,
          cause |-> e.msg]

\* the variant that puts the whole response text into the error
ParseExhausted_untruncated(n, rt, e) ==
    [type |-> "ValueError", msg |-> "parse_exhausted", n |-> n,
     raw |-> rt, has_raw |-> TRUE, cause |-> e.msg]

\* ValueError(f"Не удалось распарсить JSON после {max_retries} попыток.
\*   Ответ от API: {response_text[:200]}... Ошибка парсинга: {e}")
ParseExhausted(n, rt, e) ==
    [type |-> "ValueError", msg |-> "parse_exhausted", n |-> n,
     raw |-> Slice(rt, 0, TruncLimit), has_raw |-> TRUE, cause |-> e.msg]

\* the GUI's: {response_text[:200] if response_text else 'Нет ответа'}
gui_ParseExhausted(n, rt, e) ==
    [type |-> "ValueError", msg |-> "parse_exhausted", n |-> n,
     raw |-> IF rt # None /\ rt # <<>> THEN Slice(rt, 0, TruncLimit)
             ELSE NoResponseText,
     has_raw |-> TRUE, cause |-> e.msg]

\* ValueError(f"Не удалось получить валидный JSON после {max_retries} попыток.
\*   Ошибка валидации: {e}")
ValidationExhausted(n, e) ==
    [type |-> "ValueError", msg |-> "validation_exhausted", n |-> n,
     raw |-> <<>>, has_raw |-> FALSE, cause |-> e.msg]

(***************************************************************************)
(* Spec: one send_json_request call, of the API module or of the GUI       *)
(* module, against a provider that answers each call with any text of      *)
(* ProviderTexts or raises any exception of ProviderExceptions.            *)
(***************************************************************************)
UserMessages == {"q1", "q2"}

Init ==
    /\ impl \in {"api", "gui"}
    /\ user_message \in UserMessages
    /\ max_retries \in 0..MaxRetries
    /\ pc = "start"
    \* the API call acquires its client; the GUI call is handed one, or None
    /\ client \in (IF impl = "api" THEN {"None"} ELSE {"None", "open"})
    /\ exits = 0
    /\ chat = <<>>
    /\ attempt = 0
    /\ response_text = None
    /\ calls = 0
    /\ sent = <<>>
    /\ received = <<>>
    /\ outcome = NoOutcome
    /\ IdleClean
    /\ IdleValid
    /\ IdleApps

\* the variant whose release stands at the end of the try block, so that
\* only a return reaches it
ApiEnd_release_on_return(o) ==
    /\ outcome' = o
    /\ pc' = "done"
    /\ IF client = "open" /\ o.kind = "return"
       THEN client' = "closed" /\ exits' = exits + 1
       ELSE UNCHANGED <<client, exits>>

\* API: the exception leaves through `except Exception: raise` and the
\* finally clause releases the client if one is held
ApiEnd(o) ==
    /\ outcome' = o
    /\ pc' = "done"
    /\ IF client = "open"
       THEN client' = "closed" /\ exits' = exits + 1
       ELSE UNCHANGED <<client, exits>>

\* API lines 161-175: get_gigachat_client() and the first conversation
ApiGetClient ==
    /\ impl = "api" /\ pc = "start"
    /\ \/ \* no credentials in the environment
          /\ ApiEnd(Raised(Exc("ValueError", "no_credentials")))
          /\ UNCHANGED chat
       \/ \* GigaChat(...) or client.__enter__() raises
          /\ ApiEnd(Raised(Exc("ConnectionError", "connect_failed")))
          /\ UNCHANGED chat
       \/ /\ client' = "open"
          /\ chat' = BaseChat(user_message)
          /\ pc' = "first_call"
          /\ UNCHANGED <<exits, outcome>>
    /\ UNCHANGED <<impl, user_message, max_retries, attempt, response_text,
                   calls, sent, received>>
    /\ UNCHANGED <<cleanVars, validVars, appVars>>

\* API lines 178-179: the provider call before the loop
ApiFirstCall ==
    /\ impl = "api" /\ pc = "first_call"
    /\ \E r \in ProviderResults :
          /\ calls' = calls + 1
          /\ sent' = Append(sent, chat)
          /\ received' = Append(received, r)
          /\ IF r.kind = "text"
             THEN /\ response_text' = r.text
                  /\ attempt' = 0
                  /\ pc' = "loop"
                  /\ UNCHANGED <<client, exits, outcome>>
             ELSE /\ ApiEnd(Raised(r.exc))
                  /\ UNCHANGED <<response_text, attempt>>
    /\ UNCHANGED <<impl, user_message, max_retries, chat>>
    /\ UNCHANGED <<cleanVars, validVars, appVars>>

\* API lines 182-231: one iteration of the loop up to the retry's provider
\* call, or the statement after the loop
ApiAttempt ==
    /\ impl = "api" /\ pc = "loop"
    /\ IF attempt >= max_retries
       THEN /\ ApiEnd(Raised(Exc("ValueError", "no_valid_response")))
            /\ UNCHANGED chat
       ELSE LET res == ParseAttempt(response_text)
            IN  IF res.kind = "return"
                THEN ApiEnd(res) /\ UNCHANGED chat
                ELSE IF IsJSONDecodeError(res.exc)
                THEN IF attempt < max_retries - 1
                     THEN /\ chat' = RetryChat(DecodeDirective, user_message)
                          /\ pc' = "retry_call"
                          /\ UNCHANGED <<client, exits, outcome>>
                     ELSE /\ ApiEnd(Raised(ParseExhausted(max_retries,
                                                          response_text, res.exc)))
                          /\ UNCHANGED chat
                ELSE IF IsValueError(res.exc)
                THEN IF attempt < max_retries - 1
                     THEN /\ chat' = RetryChat(StructureDirective, user_message)
                          /\ pc' = "retry_call"
                          /\ UNCHANGED <<client, exits, outcome>>
                     ELSE /\ ApiEnd(Raised(ValidationExhausted(max_retries, res.exc)))
                          /\ UNCHANGED chat
                ELSE \* no handler of the inner try matches
                     ApiEnd(Raised(res.exc)) /\ UNCHANGED chat
    /\ UNCHANGED <<impl, user_message, max_retries, attempt, response_text,
                   calls, sent, received>>
    /\ UNCHANGED <<cleanVars, validVars, appVars>>

\* API lines 204-206 and 221-223: the provider call inside an except
\* handler; what it raises is not caught by the sibling handlers
ApiRetryCall ==
    /\ impl = "api" /\ pc = "retry_call"
    /\ \E r \in ProviderResults :
          /\ calls' = calls + 1
          /\ sent' = Append(sent, chat)
          /\ received' = Append(received, r)
          /\ IF r.kind = "text"
             THEN /\ response_text' = r.text
                  /\ attempt' = attempt + 1
                  /\ pc' = "loop"
                  /\ UNCHANGED <<client, exits, outcome>>
             ELSE /\ ApiEnd(Raised(r.exc))
                  /\ UNCHANGED <<response_text, attempt>>
    /\ UNCHANGED <<impl, user_message, max_retries, chat>>
    /\ UNCHANGED <<cleanVars, validVars, appVars>>

\* GUI: the exception leaves send_json_request
GuiEnd(o) ==
    /\ outcome' = o
    /\ pc' = "done"

\* GUI lines 108-118
GuiStart ==
    /\ impl = "gui" /\ pc = "start"
    /\ IF client = "None"
       THEN /\ GuiEnd(Raised(Exc("ConnectionError", "client_not_initialized")))
            /\ UNCHANGED chat
       ELSE /\ chat' = BaseChat(user_message)
            /\ pc' = "loop"
            /\ UNCHANGED outcome
    /\ UNCHANGED <<impl, user_message, max_retries, client, exits, attempt,
                   response_text, calls, sent, received>>
    /\ UNCHANGED <<cleanVars, validVars, appVars>>

\* GUI line 121 and line 166: the loop header and the statement after it
GuiLoop ==
    /\ impl = "gui" /\ pc = "loop"
    /\ IF attempt < max_retries
       THEN pc' = "call" /\ UNCHANGED outcome
       ELSE GuiEnd(Raised(Exc("ValueError", "no_valid_response_after_all")))
    /\ UNCHANGED <<impl, user_message, max_retries, client, exits, chat, attempt,
                   response_text, calls, sent, received>>
    /\ UNCHANGED <<cleanVars, validVars, appVars>>

\* GUI lines 139-164: the except clauses of the try inside the loop
GuiHandle(e) ==
    IF IsJSONDecodeError(e)
    THEN IF attempt < max_retries - 1
         THEN /\ chat' = RetryChat(DecodeDirective, user_message)
              /\ attempt' = attempt + 1
              /\ pc' = "loop"
              /\ UNCHANGED outcome
         ELSE /\ GuiEnd(Raised(gui_ParseExhausted(max_retries, response_text', e)))
              /\ UNCHANGED <<chat, attempt>>
    ELSE IF IsValueError(e)
    THEN IF MentionsStructure(e) /\ attempt < max_retries - 1
         THEN /\ chat' = RetryChat(StructureDirective, user_message)
              /\ attempt' = attempt + 1
              /\ pc' = "loop"
              /\ UNCHANGED outcome
         ELSE /\ GuiEnd(Raised(e))
              /\ UNCHANGED <<chat, attempt>>
    ELSE /\ GuiEnd(Raised(e))
         /\ UNCHANGED <<chat, attempt>>

\* GUI lines 124-125: the provider call, inside the try
GuiCall ==
    /\ impl = "gui" /\ pc = "call"
    /\ \E r \in ProviderResults :
          /\ calls' = calls + 1
          /\ sent' = Append(sent, chat)
          /\ received' = Append(received, r)
          /\ IF r.kind = "text"
             THEN /\ response_text' = r.text
                  /\ pc' = "parse"
                  /\ UNCHANGED <<chat, attempt, outcome>>
             ELSE /\ response_text' = response_text
                  /\ GuiHandle(r.exc)
    /\ UNCHANGED <<impl, user_message, max_retries, client, exits>>
    /\ UNCHANGED <<cleanVars, validVars, appVars>>

\* GUI lines 127-137: clean, decode, validate, and the handler that follows
GuiParse ==
    /\ impl = "gui" /\ pc = "parse"
    /\ response_text' = response_text
    /\ LET res == gui_ParseAttempt(response_text)
       IN  IF res.kind = "return"
           THEN GuiEnd(res) /\ UNCHANGED <<chat, attempt>>
           ELSE GuiHandle(res.exc)
    /\ UNCHANGED <<impl, user_message, max_retries, client, exits,
                   calls, sent, received>>
    /\ UNCHANGED <<cleanVars, validVars, appVars>>

Next ==
    \/ ApiGetClient
    \/ ApiFirstCall
    \/ ApiAttempt
    \/ ApiRetryCall
    \/ GuiStart
    \/ GuiLoop
    \/ GuiCall
    \/ GuiParse

Spec == Init /\ [][Next]_vars

(***************************************************************************)
(* SpecPair: two send_json_request calls on two threads.  The running      *)
(* call's local variables are the variables of Spec; those of the other    *)
(* call are parked, and a thread switch exchanges the two.                 *)
(***************************************************************************)
\* the frame of a call that has not started yet
NewFrame(i, um, n, c) ==
    [NoFrame EXCEPT !.impl = i, !.user_message = um, !.max_retries = n,
                    !.pc = "start", !.client = c, !.response_text = None]

NewFrames ==
    {NewFrame(i, um, n, c) :
        i \in {"api", "gui"}, um \in UserMessages, n \in 0..MaxRetries,
        c \in {"None", "open"}}

\* the API call acquires its own client; the GUI call is handed one
StartsWell(f) == f.impl = "api" => f.client = "None"

InitPair ==
    /\ parked \in {f \in NewFrames : StartsWell(f)}
    \* (the two calls are interchangeable: the first one asks "q1", and is the
    \* API module's when the two are of different modules; both are given the
    \* same max_retries)
    /\ \E f \in {g \in NewFrames : /\ StartsWell(g)
                                   /\ g.user_message = "q1"
                                   /\ g.max_retries = parked.max_retries
                                   /\ g.impl = "gui" => parked.impl = "gui"} :
          /\ impl = f.impl
          /\ user_message = f.user_message
          /\ max_retries = f.max_retries
          /\ pc = f.pc
          /\ client = f.client
          /\ exits = f.exits
          /\ chat = f.chat
          /\ attempt = f.attempt
          /\ response_text = f.response_text
          /\ calls = f.calls
          /\ sent = f.sent
          /\ received = f.received
          /\ outcome = f.outcome
    /\ IdleClean
    /\ IdleValid
    /\ IdleGui
    /\ IdleLater

\* the scheduler stops the running call and resumes the other one
Switch ==
    /\ parked # NoFrame
    /\ parked.pc # "done"
    /\ parked' = Frame
    /\ impl' = parked.impl
    /\ user_message' = parked.user_message
    /\ max_retries' = parked.max_retries
    /\ pc' = parked.pc
    /\ client' = parked.client
    /\ exits' = parked.exits
    /\ chat' = parked.chat
    /\ attempt' = parked.attempt
    /\ response_text' = parked.response_text
    /\ calls' = parked.calls
    /\ sent' = parked.sent
    /\ received' = parked.received
    /\ outcome' = parked.outcome
    /\ UNCHANGED <<cleanVars, validVars, guiVars, laterVars>>

NextPair == Next \/ Switch

SpecPair == InitPair /\ [][NextPair]_vars

(***************************************************************************)
(* SpecGui: the chat window of day_1 and of day_2.  The Tk main loop runs  *)
(* one handler at a time (send_message, a display callback, on_closing);   *)
(* a worker thread runs get_bot_response, for day_2 with the GUI module's  *)
(* send_json_request, whose steps are the actions of Spec.                 *)
(***************************************************************************)
\* send_json_request(self.giga_client, user_message): max_retries=3
DefaultMaxRetries == 3

\* what message_entry can hold: whitespace and at most one word
EntryTexts == {<<>>, <<" ">>, <<"q1">>, <<" ", "q2", "\n">>}

\* the variant of message_entry.delete that leaves the text in the entry
DeletedEntry_kept(t) == t

\* message_entry.delete("1.0", tk.END)
DeletedEntry(t) == <<>>

\* entries of chat_display
ChatEntry(kind, body) == [kind |-> kind, body |-> body]
Greeting == ChatEntry("bot", [text |-> "greeting"])
NotConnected == ChatEntry("error", [text |-> "not connected"])

\* the variant of day_2's get_bot_response without `except Exception`
HandlerFor_no_catch_all(e) ==
    IF IsValueError(e) THEN "validation"
    ELSE IF e.type = "ConnectionError" THEN "connection"
    ELSE "uncaught"

\* day_2 get_bot_response: the except clause that catches e, by its message
\* prefix
HandlerFor(e) ==
    IF IsValueError(e) THEN "validation"
    ELSE IF e.type = "ConnectionError" THEN "connection"
    ELSE "other"

\* the display callback get_bot_response schedules for the outcome o
Day2Callback(o) ==
    IF o.kind = "return"
    THEN ChatEntry("json", o.value)
    ELSE ChatEntry("error", [prefix |-> HandlerFor(o.exc), exc |-> o.exc])

Day1Callback(o) ==
    IF o.kind = "return"
    THEN ChatEntry("bot", o.value)
    ELSE ChatEntry("error", [prefix |-> "plain", exc |-> o.exc])

\* the running thread's local variables become those of the frame f
LoadFrame(f) ==
    /\ impl' = f.impl
    /\ user_message' = f.user_message
    /\ max_retries' = f.max_retries
    /\ pc' = f.pc
    /\ client' = f.client
    /\ exits' = f.exits
    /\ chat' = f.chat
    /\ attempt' = f.attempt
    /\ response_text' = f.response_text
    /\ calls' = f.calls
    /\ sent' = f.sent
    /\ received' = f.received
    /\ outcome' = f.outcome

\* the frame of the worker send_message starts for the message m
WorkerFrame(m) ==
    IF app = "day_1"
    THEN [NewFrame("day_1", m, 0, giga_client) EXCEPT !.pc = "chat"]
    ELSE NewFrame("gui", m, DefaultMaxRetries, giga_client)

InitGui ==
    /\ app \in {"day_1", "day_2"}
    /\ window = "open"
    \* init_gigachat: no credentials or a failed connection leave None
    /\ giga_client \in {"None", "open"}
    /\ entry_text = <<>>
    /\ entry_state = "normal"
    /\ button_state = (IF giga_client = "None" THEN "disabled" ELSE "normal")
    /\ workers = 0
    /\ callbacks = <<>>
    /\ shown = (IF giga_client = "None" THEN NotConnected ELSE Greeting)
    /\ last_json_response = None
    /\ ignored = 0
    /\ IdleClean
    /\ IdleValid
    /\ IdleCoord
    /\ IdlePair
    /\ IdleLater

\* the user edits the text of message_entry
TypeText ==
    /\ window = "open"
    /\ entry_state = "normal"
    /\ \E t \in EntryTexts \ {entry_text} : entry_text' = t
    /\ UNCHANGED <<app, window, giga_client, entry_state, button_state, workers,
                   callbacks, shown, last_json_response, ignored>>
    /\ UNCHANGED <<cleanVars, validVars, coordVars, pairVars, laterVars>>

\* ChatBotGUI.send_message
send_message ==
    LET message == strip(entry_text)
    IN  IF giga_client = "None" \/ message = <<>>
        THEN \* return
             /\ ignored' = (IF workers + Len(callbacks) > 0 /\ ignored < MaxIgnored
                            THEN ignored + 1 ELSE ignored)
             /\ UNCHANGED <<entry_text, shown, button_state, entry_state, workers>>
             /\ UNCHANGED <<coordVars, pairVars>>
        ELSE /\ entry_text' = DeletedEntry(entry_text)
             /\ shown' = ChatEntry("user", [text |-> message[1]])
             /\ button_state' = "disabled"
             /\ entry_state' = "disabled"
             \* Thread(target=self.get_bot_response, args=(message,)).start();
             \* the model holds the frames of two threads
             /\ workers' = workers + 1
             /\ ignored' = 0
             /\ IF pc = "idle"
                THEN LoadFrame(WorkerFrame(message[1])) /\ UNCHANGED parked
                ELSE /\ parked = NoFrame
                     /\ parked' = Frame
                     /\ LoadFrame(WorkerFrame(message[1]))

\* a click on send_button, which Tk delivers only while the button is enabled
ClickSend ==
    /\ window = "open"
    /\ button_state = "normal"
    /\ send_message
    /\ UNCHANGED <<app, window, giga_client, callbacks, last_json_response>>
    /\ UNCHANGED <<cleanVars, validVars, laterVars>>

\* the <Control-Return> binding of message_entry, whatever the entry's state
CtrlReturn ==
    /\ window = "open"
    /\ send_message
    /\ UNCHANGED <<app, window, giga_client, callbacks, last_json_response>>
    /\ UNCHANGED <<cleanVars, validVars, laterVars>>

\* day_1 get_bot_response: self.giga_client.chat(user_message)
Day1Chat ==
    /\ impl = "day_1" /\ pc = "chat"
    /\ \E r \in ProviderResults :
          /\ calls' = calls + 1
          /\ sent' = Append(sent, <<Messages("user", user_message)>>)
          /\ received' = Append(received, r)
          /\ outcome' = (IF r.kind = "text" THEN Returned(JStr(r.text))
                         ELSE Raised(r.exc))
    /\ pc' = "done"
    /\ UNCHANGED <<impl, user_message, max_retries, client, exits, chat, attempt,
                   response_text>>
    /\ UNCHANGED <<cleanVars, validVars, appVars>>

\* get_bot_response after the request: root.after(0, <display callback>), and
\* the thread ends; an exception no except clause catches ends it at once
WorkerReport ==
    /\ window = "open"
    /\ workers > 0
    /\ pc = "done"
    /\ LET cb == IF app = "day_1" THEN Day1Callback(outcome)
                 ELSE Day2Callback(outcome)
       IN  callbacks' = (IF cb.kind = "error" /\ cb.body.prefix = "uncaught"
                         THEN callbacks ELSE Append(callbacks, cb))
    /\ workers' = workers - 1
    /\ IF parked = NoFrame
       THEN LoadFrame(NoFrame) /\ UNCHANGED parked
       ELSE LoadFrame(parked) /\ parked' = NoFrame
    /\ UNCHANGED <<app, window, giga_client, entry_text, entry_state,
                   button_state, shown, last_json_response, ignored>>
    /\ UNCHANGED <<cleanVars, validVars, laterVars>>

\* the main loop runs the next scheduled callback: display_response (day_1),
\* display_json_response (day_2) or display_error
Display ==
    /\ window = "open"
    /\ callbacks # <<>>
    /\ shown' = Head(callbacks)
    /\ last_json_response' = (IF Head(callbacks).kind = "json"
                              THEN Head(callbacks).body
                              ELSE last_json_response)
    /\ button_state' = "normal"
    /\ entry_state' = "normal"
    /\ callbacks' = Tail(callbacks)
    /\ ignored' = 0
    /\ UNCHANGED <<app, window, giga_client, entry_text, workers>>
    /\ UNCHANGED <<cleanVars, validVars, coordVars, pairVars, laterVars>>

\* on_closing: release the client and destroy the window; the main loop
\* returns and the process ends
OnClosing ==
    /\ window = "open"
    /\ window' = "destroyed"
    /\ giga_client' = (IF giga_client = "None" THEN "None" ELSE "closed")
    /\ UNCHANGED <<app, entry_text, entry_state, button_state, workers,
                   callbacks, shown, last_json_response, ignored>>
    /\ UNCHANGED <<cleanVars, validVars, coordVars, pairVars, laterVars>>

NextGui ==
    \/ TypeText
    \/ ClickSend
    \/ CtrlReturn
    \/ window = "open" /\ GuiStart
    \/ window = "open" /\ GuiLoop
    \/ window = "open" /\ GuiCall
    \/ window = "open" /\ GuiParse
    \/ window = "open" /\ Day1Chat
    \/ WorkerReport
    \/ Display
    \/ OnClosing

SpecGui == InitGui /\ [][NextGui]_vars

\* the worker thread is at the step p of get_bot_response
WorkerAt(p) == window = "open" /\ workers > 0 /\ pc = p

\* the worker thread keeps running and the main loop keeps serving its
\* callbacks; the user and the window manager are free.  A step of the
\* worker is enabled exactly when the worker is at it and the step moves the
\* worker on, so weak fairness of the step at p is []<>~WorkerAt(p).
SpecGuiFair ==
    /\ SpecGui
    /\ []<>~WorkerAt("start")
    /\ []<>~WorkerAt("loop")
    /\ []<>~WorkerAt("call")
    /\ []<>~WorkerAt("parse")
    /\ []<>~WorkerAt("chat")
    /\ WF_vars(WorkerReport)
    /\ WF_vars(Display)

(***************************************************************************)
(* Properties of send_json_request.                                        *)
(***************************************************************************)
Last(q) == q[Len(q)]
AllTexts(q) == \A i \in 1..Len(q) : q[i].kind = "text"

\* a provider text is a valid response when its cleaned text decodes to an
\* object that satisfies the schema
IsValidResponse(t) ==
    LET d == json_loads(clean_json_response(t))
    IN  d.ok /\ d.value.t = "dict" /\ C7_Schema(d.value)

\* the errors send_json_request raises when its attempts are used up
IsExhaustion(e) ==
    /\ e.type = "ValueError"
    /\ e.msg \in {"parse_exhausted", "validation_exhausted", "structure_mismatch",
                  "no_valid_response", "no_valid_response_after_all"}

\* the errors of a provider that cannot be reached: client acquisition failed,
\* or the last provider call raised and that exception is the one that left
IsTransportFailure ==
    \/ outcome.exc.msg \in {"no_credentials", "connect_failed",
                            "client_not_initialized"}
    \/ /\ received # <<>>
       /\ Last(received).kind = "raise"
       /\ outcome.exc = Last(received).exc

\* C1: when every response received is invalid, the call (max_retries >= 1)
\* ends with the retry-exhaustion error after exactly max_retries provider
\* calls.
C1_RetryBoundExact ==
    (/\ pc = "done"
     /\ max_retries >= 1
     /\ received # <<>>
     /\ \A i \in 1..Len(received) :
           received[i].kind = "text" /\ ~IsValidResponse(received[i].text))
    => (/\ outcome.kind = "raise"
        /\ IsExhaustion(outcome.exc)
        /\ calls = max_retries)

\* C2: the call returns at the first valid response, the k-th, after exactly
\* k provider calls, with the value decoded from it; so a call that has seen
\* no valid response cannot have ended before max_retries responses, since
\* the next response might be the valid one.
C2_SuccessShortCircuits ==
    (/\ pc = "done"
     /\ max_retries >= 1
     /\ received # <<>>
     /\ AllTexts(received))
    => IF \E k \in 1..Len(received) : IsValidResponse(received[k].text)
       THEN LET k == SetMin({j \in 1..Len(received) :
                                IsValidResponse(received[j].text)})
            IN  /\ k = Len(received)
                /\ calls = k
                /\ outcome = Returned(
                       json_loads(clean_json_response(received[k].text)).value)
       ELSE Len(received) >= max_retries

\* C3: a provider call that raises is the last provider call, and what it
\* raised is what send_json_request raises, whatever the exception's kind.
C3_TransportNotRetried ==
    \A i \in 1..Len(received) :
        received[i].kind = "raise" =>
            /\ i = Len(received)
            /\ pc = "done"
            /\ outcome = Raised(received[i].exc)

\* C4: a returned value satisfies validate_json_response and is the value
\* decoded from the cleaned text of the last provider response.
C4_ReturnedIsValidated ==
    outcome.kind = "return" =>
        /\ received # <<>>
        /\ Last(received).kind = "text"
        /\ validate_json_response(outcome.value) = "True"
        /\ LET d == json_loads(clean_json_response(Last(received).text))
           IN  d.ok /\ d.value = outcome.value

\* C4 witness: the third response, a fenced object, has been returned
C4_Witness ==
    /\ outcome.kind = "return"
    /\ calls = 3
    /\ Last(received).text = R_fenced
    /\ outcome.value = EmptyPointsDoc

\* C8: a finished call has returned a validated value, raised the
\* retry-exhaustion error, or let a provider/transport error through.
C8_ThreeOutcomes ==
    pc = "done" =>
        \/ outcome.kind = "return" /\ validate_json_response(outcome.value) = "True"
        \/ outcome.kind = "raise" /\ IsExhaustion(outcome.exc)
        \/ outcome.kind = "raise" /\ IsTransportFailure

\* the retry budget is used up by the last response received
C9_ExhaustedOnResponse ==
    /\ pc = "done"
    /\ max_retries >= 1
    /\ outcome.kind = "raise"
    /\ IsExhaustion(outcome.exc)
    /\ received # <<>>
    /\ Last(received).kind = "text"

C9_Truncated(t) == SubSeq(t, 1, IF Len(t) < TruncLimit THEN Len(t) ELSE TruncLimit)

C10_TransportKindDistinct ==
    (pc = "done" /\ client = "None") =>
        /\ calls = 0
        /\ outcome.kind = "raise"
        /\ ~IsValueError(outcome.exc)

\* C11: every value send_json_request returns has an answer field that is a
\* non-empty text; a response whose answer is the empty string is never
\* returned.
C11_AnswerNonEmpty ==
    outcome.kind = "return" =>
        /\ outcome.value.t = "dict"
        /\ PyIn(K_answer, outcome.value) = "True"
        /\ isinstance_str(DictGet(outcome.value, K_answer))
        /\ DictGet(outcome.value, K_answer).s # <<>>

\* C12: every value send_json_request returns is an object whose keys are
\* exactly answer, key_points and sentiment; a response with one more key is
\* never returned.
C12_ExactKeys ==
    outcome.kind = "return" =>
        /\ outcome.value.t = "dict"
        /\ {outcome.value.items[i].k : i \in 1..Len(outcome.value.items)}
              = {K_answer, K_key_points, K_sentiment}

\* C13: in every state of a call the number of provider calls made so far is
\* at most max_retries, for every max_retries >= 0; with max_retries = 0 the
\* provider is never called.
C13_CallsWithinBudget == calls <= max_retries

\* the i-th provider response decodes, after cleaning, to a value that does
\* not satisfy the schema (an object that breaks it, or no object at all)
C14_DecodesButInvalid(i) ==
    /\ received[i].kind = "text"
    /\ json_loads(clean_json_response(received[i].text)).ok
    /\ ~IsValidResponse(received[i].text)

\* C14: a response that decodes to a value outside the schema, non-objects
\* included, is a structural failure: another provider call follows it while
\* the budget lasts, and once the budget is used up the call ends with the
\* retry-exhaustion error; no other exception leaves the call.
C14_StructuralFailureClassified ==
    \A i \in 1..Len(received) :
        C14_DecodesButInvalid(i) =>
            \/ i < Len(received)
            \/ pc # "done"
            \/ /\ outcome.kind = "raise"
               /\ IsExhaustion(outcome.exc)
               /\ i >= max_retries

\* how the i-th attempt failed: "decode" when json.loads rejects the cleaned
\* response, "structure" when the decoded value is outside the schema; the
\* GUI module's try block also holds the provider call, so there what the
\* provider raises is classified by its type in the same way
C15_FailureKind(i) ==
    IF received[i].kind = "text"
    THEN IF ~json_loads(clean_json_response(received[i].text)).ok THEN "decode"
         ELSE IF ~IsValidResponse(received[i].text) THEN "structure"
         ELSE "none"
    ELSE IF IsJSONDecodeError(received[i].exc) THEN "decode"
         ELSE IF IsValueError(received[i].exc) THEN "structure"
         ELSE "none"

\* the corrective directive the i-th provider call carried
C15_DirectiveSent(i) ==
    IF sent[i][1].content = SYSTEM_PROMPT \o <<DecodeDirective>> THEN "decode"
    ELSE IF sent[i][1].content = SYSTEM_PROMPT \o <<StructureDirective>>
    THEN "structure"
    ELSE "none"

\* C15: the directive of provider call n+1 is the one of the failure kind of
\* attempt n: the 'only JSON' directive after a decode failure, the
\* field-naming directive after a structural failure, never the other one.
C15_DirectiveFollowsFailureKind ==
    \A i \in 1..(Len(sent) - 1) :
        /\ C15_FailureKind(i) \in {"decode", "structure"}
        /\ C15_DirectiveSent(i + 1) = C15_FailureKind(i)

\* C15 witness: a decode failure, then a structural failure, and the third
\* call has been made with the field-naming directive after the second
\* carried the 'only JSON' directive
C15_Witness ==
    /\ Len(sent) = 3
    /\ received[1] = TextResult(R_prose)
    /\ received[2] = TextResult(R_bad_sentiment)
    /\ C15_DirectiveSent(2) = "decode"
    /\ C15_DirectiveSent(3) = "structure"

\* C16: the first provider call carries the base instruction; every later
\* call carries the base instruction followed by exactly one corrective
\* directive, however many attempts have failed before it.
C16_OneDirectiveOnBase ==
    \A i \in 1..Len(sent) :
        /\ sent[i][1].role = "system"
        /\ IF i = 1
           THEN sent[i][1].content = SYSTEM_PROMPT
           ELSE \E d \in {DecodeDirective, StructureDirective} :
                    sent[i][1].content = SYSTEM_PROMPT \o <<d>>

\* C16 witness: two attempts have failed and the third call has been made
C16_Witness ==
    /\ Len(sent) = 3
    /\ received[1] = TextResult(R_bad_sentiment)
    /\ received[2] = TextResult(R_bad_sentiment)
    /\ Len(sent[3][1].content) = Len(SYSTEM_PROMPT) + 1

\* C17: every provider call carries a conversation of exactly two turns, the
\* system instruction and the user turn, and the user turn holds the caller's
\* user_message, which the call never changes; no response and no failure
\* text is added.
C17_FreshTwoTurnConversation ==
    /\ [](\A i \in 1..Len(sent) :
             /\ Len(sent[i]) = 2
             /\ sent[i][1].role = "system"
             /\ sent[i][2] = Messages("user", user_message))
    /\ [][user_message' = user_message]_vars

\* C17 witness: the third call of a request for "q2" has been made
C17_Witness ==
    /\ user_message = "q2"
    /\ Len(sent) = 3
    /\ received[1] = TextResult(R_prose)
    /\ received[2] = TextResult(R_empty_array)
    /\ sent[3][2].content = "q2"

\* the attempts of the finished call failed with different kinds, and the
\* call raised the retry-exhaustion error
C18_MixedFailuresExhausted ==
    /\ pc = "done"
    /\ outcome.kind = "raise"
    /\ IsExhaustion(outcome.exc)
    /\ \E i, j \in 1..Len(received) :
          /\ C15_FailureKind(i) = "decode"
          /\ C15_FailureKind(j) = "structure"

\* C18: when the attempts of a call failed with different kinds, the
\* retry-exhaustion error reports the kind and the reason of the last
\* attempt's failure: the decode error when the last attempt failed to
\* decode, the validation reason when it failed the schema.
C18_LastFailureReported ==
    C18_MixedFailuresExhausted =>
        IF C15_FailureKind(Len(received)) = "decode"
        THEN /\ outcome.exc.msg = "parse_exhausted"
             /\ outcome.exc.cause =
                  (IF Last(received).kind = "text" THEN JsonDecodeError.msg
                   ELSE Last(received).exc.msg)
        ELSE /\ C15_FailureKind(Len(received)) = "structure"
             /\ outcome.exc.msg # "parse_exhausted"
             /\ StructureError.msg \in {outcome.exc.msg, outcome.exc.cause}

\* C18 witness: a structural failure, then decode failures, and the error
\* reports the decode failure
C18_Witness ==
    /\ C18_MixedFailuresExhausted
    /\ received[1] = TextResult(R_bad_sentiment)
    /\ Last(received) = TextResult(R_prose)
    /\ outcome.exc.msg = "parse_exhausted"

(***************************************************************************)
(* Properties of clean_json_response (SpecClean).                          *)
(***************************************************************************)
C19_Braces == {"{", "}"}

\* text[a..b] is a J of the claim: it begins with "{", ends with "}", and no
\* brace stands before it or after it
C19_IsWrappedObject(a, b) ==
    /\ a < b
    /\ text[a] = "{"
    /\ text[b] = "}"
    /\ \A i \in 1..Len(text) : (i < a \/ i > b) => text[i] \notin C19_Braces

\* C19: for a text prefix + J + suffix, J from "{" to "}", no brace in prefix
\* or suffix, clean_json_response returns exactly J, in both copies.
C19_WrappedObjectRecovered ==
    clean_pc # "start" =>
        \A a, b \in 1..Len(text) :
            C19_IsWrappedObject(a, b) =>
                /\ cleaned = SubSeq(text, a, b)
                /\ gui_cleaned = SubSeq(text, a, b)

\* C19 witness: an object inside a tagged fence with newlines has been
\* cleaned
C19_Witness ==
    /\ clean_pc = "once"
    /\ text = FenceJson \o <<"\n">> \o <<"{", "a", "}">> \o <<"\n">> \o Fence
    /\ cleaned = <<"{", "a", "}">>

\* the text after trimming, fence stripping and trimming again
C20_Unfenced(t) ==
    LET a == strip(t)
        b == IF startswith(a, FenceJson) THEN SubSeq(a, 8, Len(a))
             ELSE IF startswith(a, Fence) THEN SubSeq(a, 4, Len(a))
             ELSE a
        c == IF endswith(b, Fence) THEN SubSeq(b, 1, Len(b) - 3) ELSE b
    IN  strip(c)

\* the expected result: the span from the first "{" to the last "}" when the
\* last "}" stands after the first "{", the text itself otherwise
C20_Expected(u) ==
    LET opens == {i \in 1..Len(u) : u[i] = "{"}
        closes == {i \in 1..Len(u) : u[i] = "}"}
    IN  IF opens # {} /\ closes # {} /\ SetMax(closes) > SetMin(opens)
        THEN SubSeq(u, SetMin(opens), SetMax(closes))
        ELSE u

\* C20: clean_json_response returns the span from the first "{" to the last
\* "}" of the trimmed, fence-stripped text exactly when that text holds a "{"
\* and its last "}" stands after its first "{", whatever the balance of the
\* braces in between; otherwise it returns that text unsliced.
C20_SliceIffBracesInOrder ==
    clean_pc # "start" =>
        /\ cleaned = C20_Expected(C20_Unfenced(text))
        /\ gui_cleaned = C20_Expected(C20_Unfenced(text))

\* C20 witness: a slice with unbalanced braces that drops the prose behind it
C20_Witness ==
    /\ clean_pc = "once"
    /\ text = <<"{", "{", "}", "a">>
    /\ cleaned = <<"{", "{", "}">>

(***************************************************************************)
(* The client of the API module's send_json_request.                       *)
(***************************************************************************)
\* C24: the API module's call releases its client exactly once on every exit
\* path after it acquired it, and never before the exit; a call whose client
\* acquisition failed releases nothing and makes no provider call.
C24_ClientReleasedOnce ==
    impl = "api" =>
        /\ exits <= 1
        /\ (pc # "done" => exits = 0 /\ client \in {"None", "open"})
        /\ (pc = "done" =>
               IF client = "None"
               THEN exits = 0 /\ calls = 0
               ELSE client = "closed" /\ exits = 1)

\* C24 witness: a retry provider call raised, and the client was released
C24_Witness ==
    /\ impl = "api"
    /\ pc = "done"
    /\ calls = 2
    /\ Last(received).kind = "raise"
    /\ outcome.kind = "raise"
    /\ client = "closed"
    /\ exits = 1

(***************************************************************************)
(* Properties of two calls (SpecPair).                                     *)
(***************************************************************************)
C21_BothDone == pc = "done" /\ parked.pc = "done"

\* the two calls were given the same arguments and a client, and received
\* the same provider answers
C21_SameInputs ==
    /\ impl = parked.impl
    /\ user_message = parked.user_message
    /\ max_retries = parked.max_retries
    /\ client # "None" /\ parked.client # "None"
    /\ received = parked.received

\* C21: concurrent calls do not interfere.  A step of the running call
\* leaves the other call's local variables (attempt counter, conversation,
\* histories) as they are, a thread switch only exchanges the two; and under
\* every interleaving two calls with the same user message, max_retries and
\* received answers sent the same provider requests and ended the same way.
C21_CallsIndependent ==
    /\ []((C21_BothDone /\ C21_SameInputs) =>
            /\ sent = parked.sent
            /\ calls = parked.calls
            /\ outcome = parked.outcome)
    /\ [][parked' = parked \/ (parked' = Frame /\ Frame' = parked)]_vars

\* C21 witness: both calls were retried with a directive, their steps
\* interleaved, and they ended with different results
C21_Witness ==
    /\ C21_BothDone
    /\ user_message # parked.user_message
    /\ Len(sent) = 3 /\ Len(parked.sent) = 2
    /\ outcome.kind = "return"
    /\ parked.outcome.kind = "raise"

\* the running call is the API module's, the other the GUI module's, both
\* finished for the same user message and max_retries >= 1 with a client, and
\* both were answered with texts only, from one script
C23_SameScript ==
    /\ C21_BothDone
    /\ impl = "api" /\ parked.impl = "gui"
    /\ user_message = parked.user_message
    /\ max_retries = parked.max_retries
    /\ max_retries >= 1
    /\ client # "None" /\ parked.client # "None"
    /\ AllTexts(received) /\ AllTexts(parked.received)
    /\ \A i \in 1..Len(received) :
          i <= Len(parked.received) => received[i] = parked.received[i]

\* C23: on one script of text responses and max_retries >= 1 the API
\* module's call and the GUI module's call make the same number of provider
\* calls with the same system instructions, and both return the same value or
\* both raise.
C23_ImplementationsAgree ==
    C23_SameScript =>
        /\ calls = parked.calls
        /\ Len(sent) = Len(parked.sent)
        /\ \A i \in 1..Len(sent) : sent[i][1] = parked.sent[i][1]
        /\ outcome.kind = parked.outcome.kind
        /\ outcome.value = parked.outcome.value

\* C23 witness: both modules made three calls on the script decode failure,
\* structural failure, valid object and returned the object
C23_Witness ==
    /\ C23_SameScript
    /\ received = <<TextResult(R_prose), TextResult(R_bad_sentiment),
                    TextResult(R_valid)>>
    /\ parked.calls = 3
    /\ outcome = Returned(ValidDoc)
    /\ parked.outcome = Returned(ValidDoc)

(***************************************************************************)
(* Properties of the chat windows of day_1 and day_2.                      *)
(***************************************************************************)
\* the handler day_2's get_bot_response must run for the outcome o
C22_ExpectedKind(o) ==
    IF o.kind = "return" THEN "json"
    ELSE IF o.exc.type \in {"ValueError", "JSONDecodeError"} THEN "validation"
    ELSE IF o.exc.type = "ConnectionError" THEN "connection"
    ELSE "other"

C22_ReportedKind(cb) ==
    IF cb.kind = "error" THEN cb.body.prefix ELSE cb.kind

\* C22: in the day_2 window, once send_message has disabled the button and
\* the entry and started the worker, the worker is running or its display
\* callback is scheduled; when the worker ends, whatever the outcome of
\* send_json_request (a value, a ValueError, a ConnectionError, any other
\* exception), it has scheduled the callback that shows that value or that
\* error; the callback shows it and enables the button and the entry; and the
\* controls do not stay disabled while the window is open.
C22_EveryOutcomeReported ==
    /\ [](app = "day_2" /\ entry_state = "disabled"
            => /\ button_state = "disabled"
               /\ workers + Len(callbacks) >= 1)
    /\ [][app = "day_2" /\ workers' < workers
            => /\ callbacks' # <<>>
               /\ Len(callbacks') = Len(callbacks) + 1
               /\ C22_ReportedKind(callbacks'[Len(callbacks')])
                    = C22_ExpectedKind(outcome)
               /\ callbacks'[Len(callbacks')].body
                    = (IF outcome.kind = "return" THEN outcome.value
                       ELSE [prefix |-> C22_ExpectedKind(outcome),
                             exc |-> outcome.exc])]_vars
    /\ [][app = "day_2" /\ Len(callbacks') < Len(callbacks)
            => /\ shown' = Head(callbacks)
               /\ button_state' = "normal"
               /\ entry_state' = "normal"]_vars
    /\ (app = "day_2" /\ entry_state = "disabled")
          ~> \/ entry_state = "normal" /\ button_state = "normal"
             \/ window = "destroyed"

\* an exception of no named class was shown and the controls are enabled again
C22_Witness ==
    /\ app = "day_2"
    /\ window = "open"
    /\ shown.kind = "error"
    /\ shown.body = [prefix |-> "other",
                     exc |-> Exc("RuntimeError", "provider_failed")]
    /\ entry_state = "normal"
    /\ button_state = "normal"
    /\ workers = 0

\* C25: the day_1 and day_2 windows have at most one worker in flight: from
\* the send_message that starts a worker to the matching display callback,
\* no click and no Ctrl+Enter starts a second one.
C25_OneWorkerInFlight ==
    /\ workers + Len(callbacks) <= 1
    /\ parked = NoFrame
    /\ (workers = 1 <=> pc # "idle")

\* a Ctrl+Enter arrived while the worker was running, and started nothing
C25_Witness ==
    /\ workers = 1
    /\ ignored >= 1
    /\ entry_state = "disabled"

(***************************************************************************)
(* SpecDay5: the chat window of day 5.  It keeps the conversation in       *)
(* self.conversation_history, asks the provider for a greeting at start-up *)
(* and after every change of settings, and has a modal settings window.    *)
(* Worker threads (get_initial_greeting, get_bot_response) run beside the  *)
(* main loop; each of their statements on self is a step.                  *)
(***************************************************************************)
\* the window starts at most MaxRequests worker threads, each of which makes
\* one provider request
MaxRequests == 3

\* DEFAULT_TEMPERATURE = 0.6, in hundredths
DEFAULT_TEMPERATURE == 60
DEFAULT_PRESET_KEY == "no_settings"

\* self.presets without the files of config/: DEFAULT_PRESET_PROMPTS and
\* DEFAULT_PRESET_NAMES
Day5Presets ==
    [no_settings |-> [name |-> "n_no_settings", prompt |-> "p_no_settings"]]

\* the texts of the temperature spinbox, and float() of them in hundredths
\* (-1: float() raises ValueError)
FloatOf ==
    [t \in {"", "abc", "0.60", "1.00", "2.50"} |->
        CASE t = "0.60" -> 60
          [] t = "1.00" -> 100
          [] t = "2.50" -> 250
          [] OTHER -> -1]
TemperatureTexts == DOMAIN FloatOf

\* f"{self.temperature:.2f}"
FormatTemperature(v) == CHOOSE t \in TemperatureTexts : FloatOf[t] = v

\* validate_temperature, the spinbox's validatecommand
validate_temperature(value) ==
    IF value = "" THEN TRUE
    ELSE IF FloatOf[value] = -1 THEN FALSE
    ELSE 0 <= FloatOf[value] /\ FloatOf[value] <= 200

\* what the user can leave in the prompt editor
EditorTexts == {<<>>, <<" ", "p_custom">>}

\* what the user can type into message_entry
Day5Entries == {<<>>, <<" ", "q1">>}

\* the settings window is not open
NoSettings == [open |-> FALSE]

\* a reply of the provider: its content and the phrases its lower() contains
Day5Replies == {[content |-> "a1", phrases |-> {}]}

\* get_bot_response: is the reply a technical specification
is_tz(reply) ==
    /\ reply.phrases \cap {"technical specification", "tz", "project:",
                           "goals:", "data sources:"} # {}
    /\ "thanks for the answers" \in reply.phrases

NoReply == [content |-> "none", phrases |-> {}]
greeting_message == "greeting_request"

\* a worker thread: kind "greeting" | "reply"; pc "call" (up to the return of
\* giga_client.chat), "append_user", "append_assistant"
Thread(kind) == [kind |-> kind, pc |-> "call", reply |-> NoReply]

\* a handler may start one more worker thread
MayStart == calls + Len(threads) < MaxRequests

RemoveAt(s, i) == SubSeq(s, 1, i - 1) \o SubSeq(s, i + 1, Len(s))

InitDay5 ==
    /\ app = "day_5"
    /\ window = "open"
    /\ giga_client \in {"None", "open"}
    /\ current_preset_key = DEFAULT_PRESET_KEY
    /\ current_prompt = Day5Presets[DEFAULT_PRESET_KEY].prompt
    /\ current_prompt_name = Day5Presets[DEFAULT_PRESET_KEY].name
    /\ current_model = "GigaChat"
    /\ temperature = DEFAULT_TEMPERATURE
    /\ settings = NoSettings
    /\ entry_text = <<>>
    /\ entry_state = "normal"
    /\ button_state = (IF giga_client = "None" THEN "disabled" ELSE "normal")
    /\ callbacks = <<>>
    /\ shown = (IF giga_client = "None" THEN NotConnected
                ELSE ChatEntry("none", [text |-> "none"]))
    /\ last_json_response = None
    /\ ignored = 0
    \* initialize_conversation, when there is a client
    /\ conversation_history =
         (IF giga_client = "None" THEN <<>>
          ELSE <<Messages("system", current_prompt)>>)
    /\ threads = (IF giga_client = "None" THEN <<>> ELSE <<Thread("greeting")>>)
    /\ workers = Len(threads)
    /\ IdleClean
    /\ IdleValid
    /\ IdleCoord
    /\ IdlePair
    /\ IdleDay6

\* the main window takes the user's input: it is open and the settings
\* window, which holds the grab, is not
MainWindowActive == window = "open" /\ ~settings.open

\* the user edits the text of message_entry
Day5TypeText ==
    /\ MainWindowActive
    /\ entry_state = "normal"
    /\ \E t \in Day5Entries \ {entry_text} : entry_text' = t
    /\ UNCHANGED <<app, window, giga_client, entry_state, button_state, workers,
                   callbacks, shown, last_json_response, ignored>>
    /\ UNCHANGED <<cleanVars, validVars, coordVars, pairVars, day5Vars, day6Vars>>

\* ChatBotGUI.send_message of day 5
Day5_send_message ==
    LET message == strip(entry_text)
    IN  IF giga_client = "None" \/ message = <<>>
        THEN \* return
             UNCHANGED <<entry_text, shown, conversation_history, button_state,
                         entry_state, threads, workers>>
        ELSE /\ MayStart
             /\ entry_text' = <<>>
             /\ shown' = ChatEntry("user", [text |-> message[1]])
             /\ conversation_history' =
                  Append(conversation_history, Messages("user", message[1]))
             /\ button_state' = "disabled"
             /\ entry_state' = "disabled"
             /\ threads' = Append(threads, Thread("reply"))
             /\ workers' = workers + 1

\* a click on send_button
Day5ClickSend ==
    /\ MainWindowActive
    /\ button_state = "normal"
    /\ Day5_send_message
    /\ UNCHANGED <<app, window, giga_client, callbacks, last_json_response,
                   ignored, current_prompt, current_preset_key,
                   current_prompt_name, current_model, temperature, settings>>
    /\ UNCHANGED <<cleanVars, validVars, coordVars, pairVars, day6Vars>>

\* the <Return>, <Control-Return> and <Command-Return> bindings of
\* message_entry
Day5ReturnKey ==
    /\ MainWindowActive
    /\ Day5_send_message
    /\ UNCHANGED <<app, window, giga_client, callbacks, last_json_response,
                   ignored, current_prompt, current_preset_key,
                   current_prompt_name, current_model, temperature, settings>>
    /\ UNCHANGED <<cleanVars, validVars, coordVars, pairVars, day6Vars>>

\* the steps of a worker thread leave the widgets alone
ThreadFrame ==
    /\ UNCHANGED <<app, window, giga_client, entry_text, entry_state,
                   button_state, shown, last_json_response, ignored>>
    /\ UNCHANGED <<current_prompt, current_preset_key, current_prompt_name,
                   current_model, temperature, settings>>
    /\ UNCHANGED <<impl, user_message, max_retries, pc, client, exits, chat,
                   attempt, response_text, sent, received, outcome>>
    /\ UNCHANGED <<cleanVars, validVars, pairVars, day6Vars>>

\* get_initial_greeting and get_bot_response up to the provider's answer:
\* Chat(messages=..., model=..., temperature=...) is built from self and
\* self.giga_client.chat(chat) returns or raises; `except Exception`
\* schedules display_error and the thread ends
Call(i) ==
    /\ threads[i].pc = "call"
    /\ calls' = calls + 1
    /\ \/ /\ \E r \in Day5Replies :
               threads' = [threads EXCEPT ![i] =
                  [@ EXCEPT !.reply = r,
                            !.pc = IF threads[i].kind = "greeting"
                                   THEN "append_user"
                                   ELSE "append_assistant"]]
          /\ UNCHANGED <<callbacks, workers>>
       \/ /\ threads' = RemoveAt(threads, i)
          /\ workers' = workers - 1
          /\ callbacks' = Append(callbacks,
               ChatEntry("error", [text |-> IF threads[i].kind = "greeting"
                                            THEN "initialization failed"
                                            ELSE "request failed"]))
    /\ UNCHANGED conversation_history
    /\ ThreadFrame

\* get_initial_greeting: self.conversation_history.append(USER greeting)
GreetingAppendUser(i) ==
    /\ threads[i].kind = "greeting" /\ threads[i].pc = "append_user"
    /\ conversation_history' =
         Append(conversation_history, Messages("user", greeting_message))
    /\ threads' = [threads EXCEPT ![i].pc = "append_assistant"]
    /\ UNCHANGED <<callbacks, workers, calls>>
    /\ ThreadFrame

\* self.conversation_history.append(ASSISTANT reply), root.after(0, ...), and
\* the thread ends
AppendAssistant(i) ==
    /\ threads[i].pc = "append_assistant"
    /\ conversation_history' =
         Append(conversation_history,
                Messages("assistant", threads[i].reply.content))
    /\ callbacks' = Append(callbacks,
         ChatEntry(IF threads[i].kind = "reply" /\ is_tz(threads[i].reply)
                   THEN "tz" ELSE "bot",
                   [text |-> threads[i].reply.content]))
    /\ threads' = RemoveAt(threads, i)
    /\ workers' = workers - 1
    /\ UNCHANGED calls
    /\ ThreadFrame

\* the main loop runs the next callback: display_response, display_tz or
\* display_error
Day5Display ==
    /\ window = "open"
    /\ callbacks # <<>>
    /\ shown' = Head(callbacks)
    /\ button_state' = "normal"
    /\ entry_state' = "normal"
    /\ callbacks' = Tail(callbacks)
    /\ UNCHANGED <<app, window, giga_client, entry_text, workers,
                   last_json_response, ignored>>
    /\ UNCHANGED <<cleanVars, validVars, coordVars, pairVars, day5Vars, day6Vars>>

\* ChatBotGUI.open_settings: the settings window opens and takes the grab
open_settings ==
    /\ MainWindowActive
    /\ settings' = [open |-> TRUE]
    /\ UNCHANGED <<conversation_history, current_prompt, current_preset_key,
                   current_prompt_name, current_model, temperature, threads>>
    /\ UNCHANGED <<cleanVars, validVars, coordVars, pairVars, guiVars, day6Vars>>

\* the Cancel button: settings_window.destroy
CancelSettings ==
    /\ window = "open" /\ settings.open
    /\ settings' = NoSettings
    /\ UNCHANGED <<conversation_history, current_prompt, current_preset_key,
                   current_prompt_name, current_model, temperature, threads>>
    /\ UNCHANGED <<cleanVars, validVars, coordVars, pairVars, guiVars, day6Vars>>

\* what the widgets of the settings window can hold when Apply is clicked:
\* the editor any text (a preset's prompt after load_preset_with_model or
\* reset_to_default, or what the user typed), selected_preset a preset's key,
\* or "" while the current prompt is a custom one, selected_model either
\* model, and the spinbox a text its validatecommand let in
Forms ==
    {f \in [editor : EditorTexts \cup {<<Day5Presets[k].prompt>> :
                                         k \in DOMAIN Day5Presets},
            selected_preset : DOMAIN Day5Presets \cup {""},
            selected_model : {"GigaChat", "GigaChat-Pro"},
            temperature_var : TemperatureTexts] :
        /\ validate_temperature(f.temperature_var)
        /\ f.selected_preset = "" => current_preset_key = "None"}

\* apply_settings, on the widgets' contents f
apply_settings ==
    /\ window = "open" /\ settings.open
    /\ \E f \in Forms :
       LET new_prompt == strip(f.editor)
           preset_key == f.selected_preset
           temp_value_str == f.temperature_var
           temp_value == FloatOf[temp_value_str]
       IN  IF new_prompt = <<>>
           THEN \* "the prompt must not be empty", return
                UNCHANGED <<current_prompt, current_preset_key,
                            current_prompt_name, current_model, temperature,
                            conversation_history, settings, shown, threads,
                            workers>>
           ELSE /\ current_prompt' = new_prompt[1]
                /\ IF preset_key # "" /\ preset_key \in DOMAIN Day5Presets
                   THEN /\ current_preset_key' = preset_key
                        /\ current_prompt_name' = Day5Presets[preset_key].name
                   ELSE /\ current_preset_key' = "None"
                        /\ current_prompt_name' = "custom prompt"
                /\ current_model' = f.selected_model
                /\ IF \/ temp_value_str = ""
                      \/ temp_value = -1
                      \/ ~(0 <= temp_value /\ temp_value <= 200)
                   THEN \* an error box, return
                        UNCHANGED <<temperature, conversation_history,
                                    settings, shown, threads, workers>>
                   ELSE /\ giga_client # "None" => MayStart
                        /\ temperature' = temp_value
                        /\ conversation_history' =
                             <<Messages("system", current_prompt')>>
                        /\ shown' = ChatEntry("none", [text |-> "none"])
                        /\ IF giga_client # "None"
                           THEN /\ threads' = Append(threads, Thread("greeting"))
                                /\ workers' = workers + 1
                           ELSE UNCHANGED <<threads, workers>>
                        /\ settings' = NoSettings
    /\ UNCHANGED <<app, window, giga_client, entry_text, entry_state,
                   button_state, callbacks, last_json_response, ignored>>
    /\ UNCHANGED <<cleanVars, validVars, coordVars, pairVars, day6Vars>>

\* on_closing of day 5
Day5OnClosing ==
    /\ window = "open"
    /\ window' = "destroyed"
    /\ giga_client' = (IF giga_client = "None" THEN "None" ELSE "closed")
    /\ UNCHANGED <<app, entry_text, entry_state, button_state, workers,
                   callbacks, shown, last_json_response, ignored>>
    /\ UNCHANGED <<cleanVars, validVars, coordVars, pairVars, day5Vars, day6Vars>>

\* a step of a worker thread
ThreadStep ==
    /\ window = "open"
    /\ \E i \in 1..Len(threads) :
          \/ Call(i)
          \/ GreetingAppendUser(i)
          \/ AppendAssistant(i)

NextDay5 ==
    \/ Day5TypeText
    \/ Day5ClickSend
    \/ Day5ReturnKey
    \/ ThreadStep
    \/ Day5Display
    \/ open_settings
    \/ CancelSettings
    \/ apply_settings
    \/ Day5OnClosing

SpecDay5 == InitDay5 /\ [][NextDay5]_vars

(***************************************************************************)
(* Properties of the day 5 window.                                         *)
(***************************************************************************)
\* C26: in the day 5 window the input controls are enabled only while no
\* worker is busy with a provider request, and so at most one worker (the
\* greeting worker or a reply worker) is alive at any time, whatever the
\* order of start-up, sends, applied settings and completions.
C26_OneRequestInFlight ==
    /\ (entry_state = "normal" \/ button_state = "normal") => threads = <<>>
    /\ Len(threads) <= 1

\* C27: conversation_history, once initialised, is one SYSTEM turn followed
\* by USER and ASSISTANT turns in strict alternation, starting with USER:
\* no two consecutive turns of one role and no ASSISTANT turn right after
\* the SYSTEM turn, also after a provider call failed.
C27_HistoryAlternates ==
    conversation_history # <<>> =>
        /\ conversation_history[1].role = "system"
        /\ \A i \in 2..Len(conversation_history) :
              conversation_history[i].role =
                 (IF i % 2 = 0 THEN "user" ELSE "assistant")

\* C28: apply_settings is atomic: a click on Apply that is rejected (the
\* settings window stays open) changes none of current_prompt,
\* current_preset_key, current_prompt_name, current_model, temperature and
\* the SYSTEM turn of conversation_history, and so the SYSTEM turn of
\* conversation_history always equals current_prompt.
C28_ApplySettingsAtomic ==
    /\ [](conversation_history # <<>>
            => conversation_history[1] = Messages("system", current_prompt))
    /\ [][settings.open /\ settings'.open
            => /\ UNCHANGED <<current_prompt, current_preset_key,
                              current_prompt_name, current_model, temperature>>
               /\ conversation_history # <<>>
                    => conversation_history'[1] = conversation_history[1]]_vars

(***************************************************************************)
(* SpecDay6: the web chat of day 6.  One browser talks to the Flask view   *)
(* index; the chat state travels in the session cookie, the presets live   *)
(* in the files of config/.  A request is handled in one step.             *)
(***************************************************************************)
\* the browser sends at most MaxPosts POST requests
MaxPosts == 3

Day6_DEFAULT_PRESET_KEY == <<"no_settings">>
\* DEFAULT_TEMPERATURE = 0.7, in hundredths
Day6_DEFAULT_TEMPERATURE == 70
DEFAULT_PROVIDER == "gigachat"

\* AVAILABLE_PROVIDERS: the models of each provider, in order
AVAILABLE_PROVIDERS ==
    [gigachat |-> <<"GigaChat", "GigaChat-Pro">>,
     huggingface |-> <<"deepseek-ai/DeepSeek-R1">>]

Models(provider) ==
    {AVAILABLE_PROVIDERS[provider][i] :
        i \in 1..Len(AVAILABLE_PROVIDERS[provider])}

default_model_for(provider) == AVAILABLE_PROVIDERS[provider][1]

\* DEFAULT_PRESET_PROMPTS and DEFAULT_PRESET_NAMES, ordered mappings
Day6_DEFAULT_PRESET_PROMPTS ==
    <<[key |-> Day6_DEFAULT_PRESET_KEY, value |-> <<"p_no_settings">>]>>
Day6_DEFAULT_PRESET_NAMES ==
    <<[key |-> Day6_DEFAULT_PRESET_KEY, value |-> <<"n_no_settings">>]>>

\* an OrderedDict is the sequence of its items
Keys(m) == {m[i].key : i \in 1..Len(m)}
Get(m, key) == m[CHOOSE i \in 1..Len(m) : m[i].key = key].value

\* mapping[key] = value: a present key keeps its place and takes the value,
\* a new key goes to the end
Put(m, key, value) ==
    IF key \in Keys(m)
    THEN [i \in 1..Len(m) |->
            IF m[i].key = key THEN [key |-> key, value |-> value] ELSE m[i]]
    ELSE Append(m, [key |-> key, value |-> value])

\* load_raw_preset_files: a missing, unreadable or empty file reads as the
\* empty mapping, and the defaults stand in for an empty mapping
RawPrompts ==
    IF prompts_file = <<>> THEN Day6_DEFAULT_PRESET_PROMPTS ELSE prompts_file
RawNames ==
    IF names_file = <<>> THEN Day6_DEFAULT_PRESET_NAMES ELSE names_file

\* load_presets: the named prompts in the order of the names, then the
\* prompts without a name under their key; the prompts mapping is never
\* empty, so the result is never empty
load_presets(prompts, names) ==
    LET named == SelectSeq(names, LAMBDA e : e.key \in Keys(prompts))
        unnamed == SelectSeq(prompts, LAMBDA e : e.key \notin Keys(named))
    IN  [i \in 1..Len(named) |->
            [key |-> named[i].key, name |-> named[i].value,
             prompt |-> Get(prompts, named[i].key)]]
        \o [i \in 1..Len(unnamed) |->
            [key |-> unnamed[i].key, name |-> unnamed[i].key,
             prompt |-> unnamed[i].value]]

\* index: presets = load_presets()
presets == load_presets(RawPrompts, RawNames)

PresetKeys(ps) == {ps[i].key : i \in 1..Len(ps)}
PresetOf(ps, key) == ps[CHOOSE i \in 1..Len(ps) : ps[i].key = key]

\* str.lower on the letters of the titles
Lower(c) == IF c = "A" THEN "a" ELSE c
IsAlnum(c) == c \in {"A", "a", "b", "2"}

\* re.sub(r"[^a-zA-Z0-9]+", "-", title): every run of other characters
\* becomes one "-"
RECURSIVE SubDashes(_)
SubDashes(t) ==
    IF t = <<>> THEN <<>>
    ELSE IF IsAlnum(Head(t)) THEN <<Head(t)>> \o SubDashes(Tail(t))
    ELSE IF Len(t) > 1 /\ ~IsAlnum(t[2]) THEN SubDashes(Tail(t))
    ELSE <<"-">> \o SubDashes(Tail(t))

\* str.strip("-")
StripDashes(t) ==
    LET keep == {i \in 1..Len(t) : t[i] # "-"}
    IN  IF keep = {} THEN <<>> ELSE SubSeq(t, SetMin(keep), SetMax(keep))

\* slugify(title)
slugify(title) ==
    LET slug == [i \in 1..Len(StripDashes(SubDashes(title))) |->
                   Lower(StripDashes(SubDashes(title))[i])]
    IN  IF slug = <<>> THEN <<"preset">> ELSE slug

\* f"{base_slug}-{counter}"
Numbered(base, counter) ==
    base \o <<"-", (<<"0", "1", "2", "3", "4", "5", "6", "7", "8", "9">>)[counter + 1]>>

\* the first of base, base-2, base-3, ... that no preset file has
RECURSIVE FreeSlug(_, _, _)
FreeSlug(base, counter, taken) ==
    LET slug == IF counter = 1 THEN base ELSE Numbered(base, counter)
    IN  IF slug \in taken THEN FreeSlug(base, counter + 1, taken) ELSE slug

\* the variant of the search that looks for the key in the prompts only
TakenKeys_prompts_only(raw_prompts, raw_names) == Keys(raw_prompts)

\* index: `slug in raw_prompts or slug in raw_names`
TakenKeys(raw_prompts, raw_names) == Keys(raw_prompts) \cup Keys(raw_names)

\* the preset files a deployment starts with: none, or files edited by hand
\* in which a prompt has no name and a name has no prompt
PresetFiles ==
    {[prompts |-> <<>>, names |-> <<>>],
     [prompts |-> <<[key |-> Day6_DEFAULT_PRESET_KEY,
                     value |-> <<"p_no_settings">>],
                    [key |-> <<"a", "-", "b">>, value |-> <<"p_old">>]>>,
      names |-> <<[key |-> Day6_DEFAULT_PRESET_KEY,
                   value |-> <<"n_no_settings">>],
                  [key |-> <<"a", "-", "b", "-", "2">>,
                   value |-> <<"n_old">>]>>]}

\* the session cookie before the first request
NoSession ==
    [set |-> FALSE, preset_key |-> <<>>, temperature |-> 0,
     provider |-> "none", model |-> "none", history |-> <<>>]

\* the request made no provider call
NoCall ==
    [called |-> FALSE, system_prompt |-> <<>>, history |-> <<>>,
     user_message |-> <<>>, settings |-> <<>>]

ChatState(preset_key, temp, provider, model, history) ==
    [set |-> TRUE, preset_key |-> preset_key, temperature |-> temp,
     provider |-> provider, model |-> model, history |-> history]

\* default_chat_state(presets)
default_chat_state(ps) ==
    ChatState(IF Day6_DEFAULT_PRESET_KEY \in PresetKeys(ps)
              THEN Day6_DEFAULT_PRESET_KEY ELSE ps[1].key,
              Day6_DEFAULT_TEMPERATURE, DEFAULT_PROVIDER,
              default_model_for(DEFAULT_PROVIDER), <<>>)

\* parse_temperature(raw_value, fallback); "absent" is None
parse_temperature(raw_value, fallback) ==
    IF raw_value = "absent" THEN fallback
    ELSE IF FloatOf[raw_value] = -1 THEN fallback
    ELSE IF FloatOf[raw_value] > 200 THEN 200
    ELSE IF FloatOf[raw_value] < 0 THEN 0
    ELSE FloatOf[raw_value]

\* index: the state the view works on
LoadedState ==
    IF \/ ~session.set
       \/ session.preset_key \notin PresetKeys(presets)
       \/ session.provider \notin DOMAIN AVAILABLE_PROVIDERS
       \/ session.model \notin Models(session.provider)
    THEN default_chat_state(presets)
    ELSE session

\* the settings fields of a POST; "absent" and "" stand for a missing or
\* empty field
SettingsForms ==
    [preset : {<<>>, <<"gone">>} \cup PresetKeys(presets),
     temperature : {"abc", "2.50"},
     provider : {"", "huggingface", "bogus"},
     model : {"", "GigaChat-Pro"}]

\* the other fields of a POST
MessageTexts == {<<" ">>, <<"hi">>}
TitleTexts == {<<" ">>, <<"A", " ", "!", "b">>}
PromptTexts == {<<>>, <<"p_new">>}

\* the variant of index that takes the model of the form as it comes
FormSettings_model_unchecked(form, state) ==
    LET key0 == IF form.preset # <<>> THEN form.preset ELSE state.preset_key
        provider0 == IF form.provider # "" THEN form.provider
                     ELSE state.provider
    IN  [preset_key |-> IF key0 \in PresetKeys(presets) THEN key0
                        ELSE presets[1].key,
         temperature |-> parse_temperature(form.temperature,
                                           state.temperature),
         provider |-> IF provider0 \in DOMAIN AVAILABLE_PROVIDERS
                      THEN provider0 ELSE DEFAULT_PROVIDER,
         model |-> IF form.model # "" THEN form.model ELSE state.model]

\* the settings index derives from the form and the state
FormSettings(form, state) ==
    LET key0 == IF form.preset # <<>> THEN form.preset ELSE state.preset_key
        preset_key == IF key0 \in PresetKeys(presets) THEN key0
                      ELSE presets[1].key
        temp == parse_temperature(form.temperature, state.temperature)
        provider0 == IF form.provider # "" THEN form.provider
                     ELSE state.provider
        provider == IF provider0 \in DOMAIN AVAILABLE_PROVIDERS THEN provider0
                    ELSE DEFAULT_PROVIDER
        model0 == IF form.model # "" THEN form.model ELSE state.model
        model == IF model0 \in Models(provider) THEN model0
                 ELSE default_model_for(provider)
    IN  [preset_key |-> preset_key, temperature |-> temp,
         provider |-> provider, model |-> model]

\* the variant of index that starts a new history whenever it stores the
\* settings
Updated_history_dropped(state, st) ==
    [set |-> TRUE, preset_key |-> st.preset_key,
     temperature |-> st.temperature, provider |-> st.provider,
     model |-> st.model, history |-> <<>>]

\* state.update({...settings...})
Updated(state, st) ==
    ChatState(st.preset_key, st.temperature, st.provider, st.model,
              state.history)

\* a fresh state with the settings st
Fresh(st) ==
    ChatState(st.preset_key, st.temperature, st.provider, st.model, <<>>)

SettingsOf(state) ==
    [preset_key |-> state.preset_key, temperature |-> state.temperature,
     provider |-> state.provider, model |-> state.model]

\* an entry of state["history"]; `under` is a history variable of the model:
\* the settings of the request that stored the entry
Entry(role, content, st) == [role |-> role, content |-> content, under |-> st]

\* the variant of index that stores the user's message before it asks
\* the provider
FailedHistory_user_kept(history, message, st) ==
    Append(history, Entry("user", message, st))

\* index, `except Exception`: the history the failed request leaves
FailedHistory(history, message, st) == history

Day6Frame ==
    UNCHANGED <<cleanVars, validVars, coordVars, pairVars, guiVars, day5Vars>>

InitDay6 ==
    /\ session = NoSession
    /\ \E files \in PresetFiles :
          /\ prompts_file = files.prompts
          /\ names_file = files.names
    /\ flashed = "none"
    /\ asked = NoCall
    /\ posts = 0
    /\ IdleClean
    /\ IdleValid
    /\ IdleCoord
    /\ IdlePair
    /\ IdleGui
    /\ IdleDay5

\* GET /: the page is rendered and the flashed message shown
IndexGet ==
    /\ session' = LoadedState
    /\ flashed' = "none"
    /\ asked' = NoCall
    /\ UNCHANGED <<prompts_file, names_file, posts>>
    /\ Day6Frame

\* a POST request arrives
Posted ==
    /\ posts < MaxPosts
    /\ posts' = posts + 1

\* POST / with action=save_preset
SavePreset ==
    /\ Posted
    /\ \E form \in SettingsForms, title \in TitleTexts,
          prompt \in PromptTexts :
       LET state == LoadedState
           st == FormSettings(form, state)
           preset_title == strip(title)
           preset_prompt_text == strip(prompt)
           slug == FreeSlug(slugify(preset_title), 1,
                            TakenKeys(RawPrompts, RawNames))
       IN  /\ IF preset_title = <<>> \/ preset_prompt_text = <<>>
              THEN /\ flashed' = (IF preset_title = <<>> THEN "title_needed"
                                  ELSE "prompt_needed")
                   /\ session' = Updated(state, st)
                   /\ UNCHANGED <<prompts_file, names_file>>
              ELSE \* write_presets(raw_prompts, raw_names)
                   /\ prompts_file' = Put(RawPrompts, slug, preset_prompt_text)
                   /\ names_file' = Put(RawNames, slug, preset_title)
                   /\ session' = Fresh([st EXCEPT !.preset_key = slug])
                   /\ flashed' = "saved"
    /\ asked' = NoCall
    /\ Day6Frame

\* POST / with action=reset
Reset ==
    /\ Posted
    /\ \E form \in SettingsForms :
          session' = Fresh(FormSettings(form, LoadedState))
    /\ flashed' = "reset"
    /\ asked' = NoCall
    /\ UNCHANGED <<prompts_file, names_file>>
    /\ Day6Frame

\* POST / with any other action: a message is sent
Send ==
    /\ Posted
    /\ \E form \in SettingsForms, typed \in MessageTexts :
       LET state == LoadedState
           st == FormSettings(form, state)
           message == strip(typed)
           settings_changed == SettingsOf(state) # st
           state1 == IF settings_changed THEN Fresh(st) ELSE Updated(state, st)
           system_prompt == PresetOf(presets, st.preset_key).prompt
       IN  /\ IF message = <<>>
              THEN /\ flashed' = "message_needed"
                   /\ session' = Updated(state, st)
                   /\ asked' = NoCall
              ELSE /\ asked' = [called |-> TRUE,
                                system_prompt |-> system_prompt,
                                history |-> state1.history,
                                user_message |-> message,
                                settings |-> st]
                   \* ask_gigachat / ask_huggingface returns or raises
                   /\ \/ /\ session' = [state1 EXCEPT !.history =
                               state1.history
                                 \o <<Entry("user", message, st),
                                      Entry("assistant", <<"a1">>, st)>>]
                         /\ flashed' = "none"
                      \/ /\ session' = [state1 EXCEPT !.history =
                               FailedHistory(state1.history, message, st)]
                         /\ flashed' = "error"
    /\ UNCHANGED <<prompts_file, names_file>>
    /\ Day6Frame

NextDay6 ==
    \/ IndexGet
    \/ SavePreset
    \/ Reset
    \/ Send

SpecDay6 == InitDay6 /\ [][NextDay6]_vars

(***************************************************************************)
(* Properties of the day 6 web chat.                                       *)
(***************************************************************************)
\* C29: whenever index calls a provider, every history entry it passes was
\* stored under the preset, provider, model and temperature of this call:
\* a change of settings through any request (a send, a send without a
\* message, a rejected preset save, a reset) has emptied the history before
\* the next provider call.
C29_HistoryOfCurrentSettings ==
    asked.called =>
        \A i \in 1..Len(asked.history) :
            asked.history[i].under = asked.settings

\* C30: the history of the session is a sequence of complete exchanges: its
\* length is even and its entries alternate user, assistant, starting with
\* user; no user entry is stored without the assistant's reply.
C30_CompleteExchanges ==
    /\ Len(session.history) % 2 = 0
    /\ \A i \in 1..Len(session.history) :
          session.history[i].role = (IF i % 2 = 1 THEN "user" ELSE "assistant")

\* a provider call failed in a session that holds two exchanges
C30_Witness ==
    /\ flashed = "error"
    /\ asked.called
    /\ Len(session.history) = 4

\* C31: a POST without a message and a send whose provider call fails while
\* the form carries the settings of the session both leave the history of
\* the session exactly as it was, and the POST without a message calls no
\* provider.
C31_HistoryLeftAsItWas ==
    [][/\ (posts' = posts + 1 /\ flashed' = "message_needed")
            => /\ session'.history = session.history
               /\ ~asked'.called
       /\ (/\ posts' = posts + 1
           /\ flashed' = "error"
           /\ asked'.settings = SettingsOf(LoadedState))
            => /\ asked'.called
               /\ session'.history = session.history]_vars

\* a POST without a message arrived in a session that holds an exchange
C31_Witness ==
    /\ flashed = "message_needed"
    /\ ~asked.called
    /\ Len(session.history) = 2

\* a provider call failed under unchanged settings in a session that holds
\* an exchange
C31_FailedWitness ==
    /\ flashed = "error"
    /\ asked.called
    /\ Len(session.history) = 2
    /\ asked.history = session.history
    /\ \A i \in 1..2 : session.history[i].under = asked.settings

\* C32: saving a preset never overwrites a preset: the key it generates is in
\* neither the prompts mapping nor the names mapping it loaded, every entry
\* of both mappings is in the written files with its value, and the search
\* through base, base-2, base-3, ... ends at the first free key after at
\* most one probe per key the mappings hold, plus one.
C32_SaveNeverOverwrites ==
    [][(posts' = posts + 1 /\ flashed' = "saved") =>
         LET slug == session'.preset_key
             base == slugify(Get(names_file', slug))
             taken == Keys(RawPrompts) \cup Keys(RawNames)
             Probe(c) == IF c = 1 THEN base ELSE Numbered(base, c)
         IN  /\ slug \notin Keys(RawPrompts)
             /\ slug \notin Keys(RawNames)
             /\ \A k \in Keys(RawPrompts) :
                   /\ k \in Keys(prompts_file')
                   /\ Get(prompts_file', k) = Get(RawPrompts, k)
             /\ \A k \in Keys(RawNames) :
                   /\ k \in Keys(names_file')
                   /\ Get(names_file', k) = Get(RawNames, k)
             /\ slug \in Keys(prompts_file') /\ slug \in Keys(names_file')
             /\ \E c \in 1..(Cardinality(taken) + 1) :
                   /\ slug = Probe(c)
                   /\ \A d \in 1..(c - 1) : Probe(d) \in taken]_vars

\* a preset was saved under a-b-3: a prompt held the key a-b and a name held
\* the key a-b-2
C32_Witness ==
    /\ flashed = "saved"
    /\ session.set
    /\ session.preset_key = <<"a", "-", "b", "-", "3">>
    /\ <<"a", "-", "b">> \in Keys(prompts_file)
    /\ <<"a", "-", "b", "-", "2">> \in Keys(names_file)
    /\ session.preset_key \in Keys(prompts_file) \cap Keys(names_file)

\* C33: the state a request stores in the session has a preset_key among the
\* presets the preset files hold at the end of the request, a provider of
\* AVAILABLE_PROVIDERS and a model of that provider, whatever preset,
\* provider and model the form submitted.
C33_StoredStateValid ==
    session.set =>
        /\ session.preset_key \in PresetKeys(presets)
        /\ session.provider \in DOMAIN AVAILABLE_PROVIDERS
        /\ session.model \in Models(session.provider)

\* a POST has switched the session to huggingface: whether its form named
\* GigaChat-Pro or no model, the model at hand was none of huggingface's, and
\* the stored model is the first model of huggingface
C33_Witness ==
    /\ session.set
    /\ posts > 0
    /\ session.provider = "huggingface"
    /\ session.model = default_model_for("huggingface")

(***************************************************************************)
(* The cleaner and the characters of its input.                            *)
(***************************************************************************)
\* C34: the output of clean_json_response is a contiguous substring of its
\* input, in both copies and again when the cleaner runs on its own output:
\* the cleaner drops characters at the two ends only, it inserts none and
\* reorders none.
C34_OutputIsSubstring ==
    /\ clean_pc # "start" =>
          /\ IsSubstring(cleaned, text)
          /\ IsSubstring(gui_cleaned, text)
    /\ clean_pc = "twice" =>
          /\ IsSubstring(recleaned, cleaned)
          /\ IsSubstring(gui_recleaned, gui_cleaned)

\* a text in a json fence with a closing fence and prose around the object
\* was cleaned: characters went at both ends and the object stayed
C34_Witness ==
    /\ clean_pc = "once"
    /\ startswith(strip(text), FenceJson)
    /\ endswith(strip(text), Fence)
    /\ cleaned = gui_cleaned
    /\ Len(cleaned) >= 2
    /\ Len(cleaned) + 10 < Len(text)
    /\ Head(cleaned) = "{"
    /\ text[1] # "{"
    /\ text[Len(text)] # "}"

====
